---- MODULE Spec2Model ----
(***************************************************************************)
(* gitlab-migrate: the cross-instance resource migration engine.           *)
(*                                                                         *)
(* One run of the command-line program is one behaviour: Init fixes the    *)
(* command, its flags, the configuration file and what the two GitLab      *)
(* instances hold; every action is one step of a handler or of a function  *)
(* it calls, at the granularity of one HTTP request.  The remote answers   *)
(* each GET from what it holds, or fails it (transport error, status,      *)
(* undecodable body); the failure is chosen when the request is made.  How *)
(* it answers the creation of a variable is part of what it holds.         *)
(*                                                                         *)
(* reqs is the wire log: every request sent, with the instance it was sent *)
(* to, the token it carried and (field resp) how it was answered.  out is  *)
(* what the program printed.  Both only grow.                              *)
(***************************************************************************)
EXTENDS Integers, Sequences, FiniteSets, TLC

VARIABLES
    cmd,                   \* the cobra command that runs
    configFile,            \* the YAML file --config points to
    groupID, projectID, recursive,              \* -g, -p, -r
    destinationGroupID, destinationProjectID,   \* -G, -P
    isDestination, isSource,                    \* -d (get), -s (set variables)
    inputFile,             \* what -i points to (set variables)
    remote,                \* what the two instances hold
    pc,                    \* the function the run is in
    config,                \* the loaded *utils.Config
    reqs,                  \* wire log
    out,                   \* printed lines
    projects, projIdx,     \* getAllVariablesForGroupProjects: source listing, position
    variablesByProject,    \* getAllVariablesForGroupProjects: the map built
    sourceVars,            \* migrate variables: interface{} holding the source snapshot
    page, allProjects,     \* fetchAllProjects / fetchGroupProjects: loop state
    destProjects,          \* the listing names are resolved against
    todo,                  \* keys a range over a Go map has not visited yet
    sourceProjectID,       \* the key the range is at
    target, variables, vi, \* createVariablesFor*: target id, list, position
    retry, result,         \* executeGitLabAPIRequest: attempt counter, return value
    inputData,             \* set variables: the parsed input file
    sourceProjects, targetProjects,   \* mirrorGroup: the two listings
    targetProjectMap,      \* mirrorGroup: namespace/name -> target id
    si,                    \* mirrorGroup: position in sourceProjects
    sourceID, targetID,    \* mirrorProject: its arguments
    pathWithNamespace,     \* mirrorProject: project.PathWithNamespace as decoded
    configOnDisk           \* the configuration file as last written

vars == <<cmd, configFile, groupID, projectID, recursive, destinationGroupID,
          destinationProjectID, isDestination, isSource, inputFile, remote, pc,
          config, reqs, out, projects, projIdx, variablesByProject, sourceVars,
          page, allProjects, destProjects, todo, sourceProjectID, target,
          variables, vi, retry, result, inputData, sourceProjects, targetProjects,
          targetProjectMap, si, sourceID, targetID, pathWithNamespace, configOnDisk>>

mirrorVars == <<sourceProjects, targetProjects, targetProjectMap, si, sourceID, targetID,
                pathWithNamespace, configOnDisk>>

(***************************************************************************)
(* Bounds of the model.                                                    *)
(***************************************************************************)
MaxPages == 2        \* non-empty pages a paginated listing may have
MaxPageLen == 2      \* project records on one page of such a listing
MaxProjects == 2     \* projects of a group whose names are resolved
MaxVars == 2         \* variables one source project or group may hold
MaxFileVars == 3     \* records in the input file of set variables

\* The loops of fetchAllProjects and fetchGroupProjects have no last page
\* number; the model follows them up to this page.
MaxPageNo == MaxPages + 2

(***************************************************************************)
(* Program constants.                                                      *)
(***************************************************************************)
\* A faulty variant of maxRetries: one attempt more.
fourAttempts == 3 + 1

maxRetries == 3
StatusOK == 200
StatusCreated == 201
StatusNotModified == 304

(***************************************************************************)
(* Sequences.                                                              *)
(***************************************************************************)
Range(s) == {s[i] : i \in DOMAIN s}

RECURSIVE Concat(_)
Concat(ss) == IF ss = <<>> THEN <<>> ELSE Head(ss) \o Concat(Tail(ss))

SeqsUpTo(S, n) == UNION {[1..k -> S] : k \in 0..n}

Last(s) == s[Len(s)]

(***************************************************************************)
(* JSON documents.  A JSON object on the wire is the sequence of its       *)
(* members <<key, value>> in the order the sender wrote them; a value is   *)
(* <<kind, text>>.  encoding/json decodes an object into a                 *)
(* map[string]interface{} (a function from its keys; of a repeated key the *)
(* last member wins) holding string, bool, float64 and nil, and encodes a  *)
(* map with its keys sorted.                                               *)
(***************************************************************************)
KeyOrder == <<"description", "key", "masked", "protected", "value", "variable_type">>

KeyRank(k) == CHOOSE i \in DOMAIN KeyOrder : KeyOrder[i] = k

\* The escapes of a JSON string: encoding/json writes <, > and & as \u003c,
\* \u003e and \u0026 (HTML-safe output) and reads either spelling.
HTMLEscape(s) == IF s = "<s3cret&>" THEN "\\u003cs3cret\\u0026\\u003e" ELSE s

Unquote(t) == IF t = "\\u003cs3cret\\u0026\\u003e" THEN "<s3cret&>" ELSE t

DecodeValue(w) ==
    CASE w[1] = "string" -> <<"string", Unquote(w[2])>>
      [] w[1] = "bool"   -> <<"bool", w[2]>>
      [] w[1] = "number" -> <<"float64", w[2]>>
      [] w[1] = "null"   -> <<"nil", "">>

EncodeValue(v) ==
    CASE v[1] = "string"  -> <<"string", HTMLEscape(v[2])>>
      [] v[1] = "bool"    -> <<"bool", v[2]>>
      [] v[1] = "float64" -> <<"number", v[2]>>
      [] v[1] = "nil"     -> <<"null", "null">>

Unmarshal(wire) ==
    [k \in {wire[i][1] : i \in DOMAIN wire} |->
        LET last == CHOOSE i \in DOMAIN wire :
                        /\ wire[i][1] = k
                        /\ \A j \in DOMAIN wire : wire[j][1] = k => j <= i
        IN  DecodeValue(wire[last][2])]

Marshalable(v) == \A k \in DOMAIN v : v[k][1] \in {"string", "bool", "float64", "nil"}

RECURSIVE SortedKeys(_)
SortedKeys(ks) ==
    IF ks = {} THEN <<>>
    ELSE LET k == CHOOSE x \in ks : \A y \in ks : KeyRank(x) <= KeyRank(y)
         IN  <<k>> \o SortedKeys(ks \ {k})

\* A faulty variant of Marshal: members holding nil are left out (omitempty).
MarshalOmitEmpty(v) ==
    LET ks == SortedKeys({k \in DOMAIN v : v[k][1] # "nil"})
    IN  [i \in DOMAIN ks |-> <<ks[i], EncodeValue(v[ks[i]])>>]

Marshal(v) ==
    LET ks == SortedKeys(DOMAIN v)
    IN  [i \in DOMAIN ks |-> <<ks[i], EncodeValue(v[ks[i]])>>]

\* The field set of a wire document: its keys with the JSON values they denote.
Fields(wire) ==
    {<<wire[i][1], IF wire[i][2][1] = "string"
                   THEN <<"string", Unquote(wire[i][2][2])>>
                   ELSE wire[i][2]>> : i \in DOMAIN wire}

(***************************************************************************)
(* What the remotes hold.                                                  *)
(***************************************************************************)
NameApi   == <<"a", "p", "i">>
NameApiV2 == <<"a", "p", "i", "-", "v", "2">>
NameAPI   == <<"A", "P", "I">>
Names == {NameApi, NameApiV2, NameAPI}

\* The j-th variable of owner o, as the API writes it (GitLab's member order is
\* not the alphabetical one).
KeyOf(o, j) == o \o "_" \o ToString(j)

WireVar(o, j) ==
    IF j % 2 = 1
    THEN << <<"variable_type", <<"string", "env_var">> >>,
            <<"key", <<"string", KeyOf(o, j)>> >>,
            <<"value", <<"string", "<s3cret&>">> >>,
            <<"protected", <<"bool", "false">> >>,
            <<"description", <<"null", "null">> >> >>
    ELSE << <<"value", <<"string", "v">> >>,
            <<"key", <<"string", KeyOf(o, j)>> >>,
            <<"masked", <<"bool", "true">> >> >>

WireVars(o, n) == [j \in 1..n |-> WireVar(o, j)]

(***************************************************************************)
(* utils/config.go.  A URL is <<scheme, rest>>; a relative URL has the     *)
(* empty scheme.                                                           *)
(***************************************************************************)
SourceURL == <<"https", "gitlab.source.example">>
DestinationURL == <<"https", "gitlab.destination.example">>

ValidConfig ==
    [readable |-> TRUE,
     SourceBaseURL |-> SourceURL, SourceAccessToken |-> "source-token",
     DestinationBaseURL |-> DestinationURL, DestinationAccessToken |-> "destination-token",
     AuthUser |-> "", AuthPassword |-> ""]

ConfigFiles ==
    {ValidConfig,
     [ValidConfig EXCEPT !.readable = FALSE],
     [ValidConfig EXCEPT !.DestinationAccessToken = " "],
     [ValidConfig EXCEPT !.SourceAccessToken = ""],
     [ValidConfig EXCEPT !.SourceBaseURL = <<"", "gitlab.source.example">>],
     [ValidConfig EXCEPT !.DestinationBaseURL = <<"", "">>],
     [ValidConfig EXCEPT !.DestinationBaseURL = <<"ftp", "gitlab.destination.example">>]}

TrimSpace(s) == IF s \in {" ", "  "} THEN "" ELSE s

validateURL(u) ==
    IF u[1] = "" THEN "URL must be absolute"
    ELSE IF u[1] # "http" /\ u[1] # "https" THEN "URL must use HTTP or HTTPS protocol"
    ELSE ""

\* A faulty variant of Validate: the URLs are validated, the tokens are not.
ValidateURLsOnly(c) ==
    IF validateURL(c.SourceBaseURL) # "" THEN "invalid source_base_url"
    ELSE IF validateURL(c.DestinationBaseURL) # "" THEN "invalid destination_base_url"
    ELSE ""

Validate(c) ==
    IF c.SourceBaseURL[1] = "" /\ TrimSpace(c.SourceBaseURL[2]) = "" THEN "source_base_url is required"
    ELSE IF TrimSpace(c.SourceAccessToken) = "" THEN "source_access_token is required"
    ELSE IF c.DestinationBaseURL[1] = "" /\ TrimSpace(c.DestinationBaseURL[2]) = ""
         THEN "destination_base_url is required"
    ELSE IF TrimSpace(c.DestinationAccessToken) = "" THEN "destination_access_token is required"
    ELSE IF validateURL(c.SourceBaseURL) # "" THEN "invalid source_base_url"
    ELSE IF validateURL(c.DestinationBaseURL) # "" THEN "invalid destination_base_url"
    ELSE ""

\* LoadConfig: the error ("" for none) of reading, parsing and validating the file.
LoadConfig(file) ==
    IF ~file.readable THEN "failed to read config file" ELSE Validate(file)

NoConfig == [ValidConfig EXCEPT !.readable = FALSE]

(***************************************************************************)
(* The project collections and variable lists the instances hold.  A       *)
(* collection is the sequence of pages the server cuts it into; a request  *)
(* without a page parameter is answered with the first page.               *)
(***************************************************************************)
\* The names of the namespaces (groups) the projects are in.
Team == <<"t", "e", "a", "m">>
Ops == <<"o", "p", "s">>

ProjectPage(firstID, names) ==
    [j \in 1..Len(names) |->
        [id |-> firstID + j - 1, name |-> names[j], namespace |-> [name |-> Team],
         path_with_namespace |-> <<Team, names[j]>>]]

NameSeqs == SeqsUpTo(Names, MaxProjects)

Injective(s) == \A i, j \in DOMAIN s : s[i] = s[j] => i = j

\* A source group (GitLab keeps the names of the projects of one group
\* distinct): one page, or a full page followed by one more project.
SrcCollections ==
    {<<ProjectPage(1, ns)>> : ns \in {s \in NameSeqs : Injective(s)}}
    \cup {<<ProjectPage(1, ns), ProjectPage(MaxProjects + 1, <<NameApi>>)>> :
            ns \in {s \in [1..MaxProjects -> Names] : Injective(s)}}

\* A destination group on one page; the function resolving names accepts any
\* listing, so names may repeat.
DstSinglePage == {<<ProjectPage(21, ns)>> : ns \in NameSeqs}

NameList == <<NameApi, NameApiV2, NameAPI>>

\* A destination group in any paging, empty pages included: page p holds
\* sizes[p] projects, numbered from 21 on and named in turn.
PagesOfSizes(sizes) ==
    [p \in DOMAIN sizes |->
        [j \in 1..sizes[p] |->
            LET id == 20 + (p - 1) * MaxPageLen + j
            IN  [id |-> id, name |-> NameList[(id % 3) + 1], namespace |-> [name |-> Team],
                 path_with_namespace |-> <<Team, NameList[(id % 3) + 1]>>]]]

DstCollections == {PagesOfSizes(sizes) : sizes \in SeqsUpTo(0..MaxPageLen, MaxPages)}

PageOf(pages, p) == IF p \in DOMAIN pages THEN pages[p] ELSE <<>>

\* The variables of source project i.
ProjectVars(i) == WireVars("P" \o ToString(i), IF i = 1 THEN MaxVars ELSE 1)

\* What the source instance answers for the variables of its projects and of
\* group 10 (which holds n variables).
SrcVariables(n) ==
    [k \in {<<SourceURL, "projects", ToString(i)>> : i \in 1..(MaxProjects + 1)}
           \cup {<<SourceURL, "groups", "10">>} |->
        IF k[2] = "groups" THEN WireVars("G", n)
        ELSE ProjectVars(CHOOSE i \in 1..(MaxProjects + 1) : ToString(i) = k[3])]

\* How the destination answers the creation of a variable, by the key of the
\* variable: with a status (created, a 3xx that client.Do does not follow,
\* a 4xx), or not at all (Dropped: client.Do fails).  f gives it by the
\* position of the variable in its owner's list.
Dropped == 0

PostStatuses == {StatusCreated, StatusNotModified, 422, Dropped}

Owners == {"G", "F"} \cup {"P" \o ToString(i) : i \in 1..(MaxProjects + 1)}

MaxListLen == IF MaxVars > MaxFileVars THEN MaxVars ELSE MaxFileVars

Answers(f) ==
    [k \in {KeyOf(o, j) : o \in Owners, j \in 1..MaxListLen} |->
        f[CHOOSE j \in 1..MaxListLen : \E o \in Owners : KeyOf(o, j) = k]]

\* Every second creation is refused, every third one is not answered.
AlternateAnswers ==
    Answers([j \in 1..MaxListLen |->
                IF j % 3 = 0 THEN Dropped ELSE IF j % 2 = 1 THEN StatusCreated ELSE 422])

\* A top-level collection (groups, projects) of an instance: a full page and
\* one more item.
TopLevelPages ==
    << [j \in 1..MaxPageLen |-> [id |-> 100 + j]], <<[id |-> 100 + MaxPageLen + 1]>> >>

\* Group 20 as the source instance holds it: set variables -s resolves names there.
SourceGroup20 == <<ProjectPage(31, <<NameApi>>)>>

Remote(src, dst, n) ==
    [projects  |-> [k \in {<<SourceURL, "10">>, <<DestinationURL, "20">>, <<SourceURL, "20">>} |->
                        IF k = <<SourceURL, "10">> THEN src
                        ELSE IF k = <<DestinationURL, "20">> THEN dst
                        ELSE SourceGroup20],
     variables |-> SrcVariables(n),
     resources |-> [k \in {SourceURL, DestinationURL} \X {"groups", "projects"} |-> TopLevelPages],
     answers   |-> AlternateAnswers,
     endless   |-> {}]

\* The page p an instance answers of the listing key: a listing in endless
\* never runs out of records.
ListedPage(key, p) ==
    IF key \in remote.endless THEN remote.projects[key][1]
    ELSE PageOf(remote.projects[key], p)

(***************************************************************************)
(* The input file of set variables: whether it can be read, the JSON value *)
(* it holds (a list of variable documents, an object keyed by project id,  *)
(* or text that is not JSON) and that value.                               *)
(***************************************************************************)
InputFile(path, readable, shape, val) ==
    [path |-> path, readable |-> readable, shape |-> shape, val |-> val]

NoInputFile == InputFile("", FALSE, "text", <<>>)

ListFile(n) == InputFile("variables.json", TRUE, "list", WireVars("F", n))

\* One entry of a recursive file; member "variables" is a list or null.
FileEntry(name, isNull, wires) ==
    [project_name |-> name, variables |-> [null |-> isNull, wires |-> wires]]

\* The file get variables -r writes for projects 1..Len(names).
MapFile(names) ==
    InputFile("variables.json", TRUE, "map",
        [k \in {ToString(i) : i \in DOMAIN names} |->
            LET i == CHOOSE i \in DOMAIN names : ToString(i) = k
            IN  FileEntry(names[i], FALSE, ProjectVars(i))])

\* A recursive file with an entry without a name and one whose variables are null.
MalformedMapFile ==
    InputFile("variables.json", TRUE, "map",
        [k \in {"1", "2"} |->
            IF k = "1" THEN [variables |-> [null |-> FALSE, wires |-> ProjectVars(1)]]
            ELSE FileEntry(NameApi, TRUE, <<>>)])

\* readInputFile: the error ("" for nil) and the []interface{} parsed.
readInputFile(file) ==
    IF ~file.readable THEN [err |-> "could not open file", val |-> <<>>]
    ELSE IF file.shape # "list" THEN [err |-> "could not parse JSON", val |-> <<>>]
    ELSE [err |-> "", val |-> [i \in DOMAIN file.val |-> Unmarshal(file.val[i])]]

\* readRecursiveIputFile: the error and the map[string]map[string]interface{}
\* parsed; a JSON list decodes into []interface{}, null into nil.
readRecursiveIputFile(file) ==
    IF ~file.readable THEN [err |-> "could not open file", val |-> <<>>]
    ELSE IF file.shape # "map" THEN [err |-> "could not parse JSON", val |-> <<>>]
    ELSE [err |-> "",
          val |-> [k \in DOMAIN file.val |->
                     [m \in DOMAIN file.val[k] |->
                        IF m # "variables" THEN file.val[k][m]
                        ELSE IF file.val[k][m].null THEN [dyn |-> "nil", val |-> <<>>]
                        ELSE [dyn |-> "[]interface {}",
                              val |-> [i \in DOMAIN file.val[k][m].wires |->
                                         Unmarshal(file.val[k][m].wires[i])]]]]]

(***************************************************************************)
(* Requests, answers and printed lines.                                    *)
(***************************************************************************)
\* How a GET can fail once it is sent: client.Do, io.ReadAll, the status
\* check, json.Unmarshal.
GetFailures == {"transport", "read", "status", "parse"}

GetOutcomes(exists) == GetFailures \cup (IF exists THEN {"ok"} ELSE {})

\* http.NewRequest fails only on a URL that does not parse: one built from an
\* id that holds a control character.
NewRequestErr(ids) == \E id \in ids : id = "\n"

Resp(ok, status, items) == [ok |-> ok, status |-> status, items |-> items]

Req(method, base, token, path, pg, body, src, resp) ==
    [method |-> method, base |-> base, token |-> token, path |-> path,
     page |-> pg, body |-> body, src |-> src, resp |-> resp]

Get(base, token, path, pg, kind, items) ==
    Req("GET", base, token, path, pg, <<>>, "",
        IF kind = "ok" THEN Resp(TRUE, StatusOK, items) ELSE Resp(FALSE, 0, <<>>))

Line(msg, arg) == [msg |-> msg, arg |-> arg]

\* A Go slice: nil, or its elements.
Slice(isNil, elems) == [nil |-> isNil, elems |-> elems]

NilSlice == Slice(TRUE, <<>>)

DecodeList(wires) == Slice(FALSE, [i \in DOMAIN wires |-> Unmarshal(wires[i])])

\* The value of member "key" of a variable document.
KeyText(body) == body[CHOOSE i \in DOMAIN body : body[i][1] = "key"][2][2]

\* What becomes of a creation request: client.Do fails, or the destination
\* answers.
PostOutcome(answers, body) ==
    IF answers[KeyText(body)] = Dropped THEN [kind |-> "transport", status |-> 0]
    ELSE [kind |-> "answered", status |-> answers[KeyText(body)]]

\* makeGitLabAPIRequest: the error it returns ("" for nil).
makeGitLabAPIRequest(newRequestErr, o) ==
    IF newRequestErr THEN "error creating request"
    ELSE IF o.kind = "transport" THEN "request failed"
    ELSE IF o.status >= 400 THEN "API returned error status"
    ELSE ""

(***************************************************************************)
(* Faulty variants of findProjectIDByExactName: a prefix match, a match     *)
(* that ignores case, and a match that falls back on the first record.     *)
(***************************************************************************)
IsPrefix(s, t) == Len(s) <= Len(t) /\ SubSeq(t, 1, Len(s)) = s

ToLower(s) ==
    [i \in DOMAIN s |-> CASE s[i] = "A" -> "a" [] s[i] = "P" -> "p" [] s[i] = "I" -> "i"
                           [] OTHER -> s[i]]

FirstWhere(ps, Match(_)) ==
    IF \E i \in DOMAIN ps : Match(ps[i].name)
    THEN ps[CHOOSE i \in DOMAIN ps :
                /\ Match(ps[i].name)
                /\ \A j \in 1..(i - 1) : ~Match(ps[j].name)].id
    ELSE 0

findProjectIDByPrefix(ps, projectName) ==
    [panic |-> FALSE, id |-> FirstWhere(ps, LAMBDA n : IsPrefix(projectName, n))]

findProjectIDIgnoringCase(ps, projectName) ==
    [panic |-> FALSE, id |-> FirstWhere(ps, LAMBDA n : ToLower(n) = ToLower(projectName))]

findProjectIDOrFirst(ps, projectName) ==
    [panic |-> FALSE,
     id |-> IF FirstWhere(ps, LAMBDA n : n = projectName) # 0 \/ ps = <<>>
            THEN FirstWhere(ps, LAMBDA n : n = projectName)
            ELSE ps[1].id]

(***************************************************************************)
(* findProjectIDByExactName.  A type assertion on a missing field panics.  *)
(***************************************************************************)
RECURSIVE scanProjects(_, _, _)
scanProjects(ps, projectName, i) ==
    IF i > Len(ps) THEN [panic |-> FALSE, id |-> 0]
    ELSE IF "name" \notin DOMAIN ps[i] THEN [panic |-> TRUE, id |-> 0]
    ELSE IF projectName = ps[i].name
         THEN IF "id" \notin DOMAIN ps[i] THEN [panic |-> TRUE, id |-> 0]
              ELSE [panic |-> FALSE, id |-> ps[i].id]
    ELSE scanProjects(ps, projectName, i + 1)

findProjectIDByExactName(ps, projectName) == scanProjects(ps, projectName, 1)

(***************************************************************************)
(* Initial states: the invocations checked.                                *)
(***************************************************************************)
input == <<cmd, configFile, groupID, projectID, recursive, destinationGroupID,
           destinationProjectID, isDestination, isSource, inputFile, remote>>

\* An interface{} value: its dynamic type and the value.
Dyn(type, val) == [dyn |-> type, val |-> val]

SliceOfMaps == "[]map[string]interface {}"
MapOfMaps == "map[string]map[string]interface {}"

InitLocals ==
    /\ pc = "Run"
    /\ config = NoConfig
    /\ reqs = <<>>
    /\ out = <<>>
    /\ projects = NilSlice
    /\ projIdx = 0
    /\ variablesByProject = <<>>
    /\ sourceVars = Dyn("nil", <<>>)
    /\ page = 0
    /\ allProjects = <<>>
    /\ destProjects = <<>>
    /\ todo = {}
    /\ sourceProjectID = ""
    /\ target = ""
    /\ variables = <<>>
    /\ vi = 0
    /\ retry = 0
    /\ result = Dyn("nil", <<>>)
    /\ inputData = <<>>
    /\ sourceProjects = <<>>
    /\ targetProjects = <<>>
    /\ targetProjectMap = <<>>
    /\ si = 0
    /\ sourceID = ""
    /\ targetID = ""
    /\ pathWithNamespace = <<>>
    /\ configOnDisk = configFile

\* migrate variables -g 10 -G 20 -r: any source group against a one-page
\* destination group, and a one-project source group against any paging of the
\* destination group.
InitMigrateRecursive ==
    /\ cmd = "migrate variables"
    /\ configFile = ValidConfig
    /\ groupID = "10" /\ projectID = "" /\ recursive = TRUE
    /\ destinationGroupID = "20" /\ destinationProjectID = ""
    /\ isDestination = FALSE /\ isSource = FALSE
    /\ inputFile = NoInputFile
    /\ \/ \E src \in SrcCollections, dst \in DstSinglePage : remote = Remote(src, dst, 0)
       \/ \E dst \in DstCollections : remote = Remote(<<ProjectPage(1, <<NameApi>>)>>, dst, 0)

\* migrate variables under every combination of its flags and every
\* configuration file.
InitMigrateFlags ==
    /\ cmd = "migrate variables"
    /\ configFile \in ConfigFiles
    /\ groupID \in {"", "10"} /\ projectID \in {"", "1"} /\ recursive \in BOOLEAN
    /\ destinationGroupID \in {"", "20"} /\ destinationProjectID \in {"", "2"}
    /\ isDestination = FALSE /\ isSource = FALSE
    /\ inputFile = NoInputFile
    /\ \E n \in 0..MaxVars :
         remote = Remote(<<ProjectPage(1, <<NameApi>>)>>, <<ProjectPage(21, <<NameApi>>)>>, n)

\* The answers in which the creations of the first n variables of every
\* list are accepted or refused in any combination.
AnswersUpTo(n) ==
    {Answers(f) : f \in {g \in [1..MaxListLen -> PostStatuses] :
                            \A j \in 1..MaxListLen : j > n => g[j] = StatusCreated}}

\* migrate variables in its three modes against a destination that accepts,
\* refuses or does not answer each creation, in every combination; in
\* recursive mode one of the two source projects has no counterpart.
InitMigrateRefused ==
    /\ cmd = "migrate variables"
    /\ configFile = ValidConfig
    /\ \/ groupID = "10" /\ projectID = "" /\ destinationGroupID = "20"
          /\ destinationProjectID = "" /\ recursive \in BOOLEAN
       \/ groupID = "" /\ projectID = "1" /\ destinationGroupID = ""
          /\ destinationProjectID = "2" /\ recursive = FALSE
    /\ isDestination = FALSE /\ isSource = FALSE
    /\ inputFile = NoInputFile
    /\ \E a \in AnswersUpTo(MaxVars) :
         remote = [Remote(<<ProjectPage(1, <<NameApi, NameApiV2>>)>>,
                          <<ProjectPage(21, <<NameApi>>)>>, MaxVars) EXCEPT !.answers = a]


\* set variables -P 2 / -G 20 -i file: a list file of any length against a
\* destination that accepts or refuses each creation.
InitSetExecutor ==
    /\ cmd = "set variables"
    /\ configFile = ValidConfig
    /\ groupID = "" /\ projectID = "" /\ recursive = FALSE
    /\ \/ destinationGroupID = "" /\ destinationProjectID = "2"
       \/ destinationGroupID = "20" /\ destinationProjectID = ""
    /\ isDestination = FALSE /\ isSource = FALSE
    /\ \E n \in 0..MaxFileVars :
         /\ inputFile = ListFile(n)
         /\ \E a \in AnswersUpTo(n) :
              remote = [Remote(<<>>, <<ProjectPage(21, <<NameApi>>)>>, 0) EXCEPT !.answers = a]

\* set variables -G 20 -r -i file: the file get variables -r wrote for a
\* source group, or a malformed one, against a destination group.
InitSetRecursive ==
    /\ cmd = "set variables"
    /\ configFile = ValidConfig
    /\ groupID = "" /\ projectID = "" /\ recursive = TRUE
    /\ destinationGroupID = "20" /\ destinationProjectID = ""
    /\ isDestination = FALSE /\ isSource \in BOOLEAN
    /\ \/ \E ns \in {s \in NameSeqs : Injective(s)} : inputFile = MapFile(ns)
       \/ inputFile = MalformedMapFile
    /\ \E ns \in SeqsUpTo(Names, 1) : remote = Remote(<<>>, <<ProjectPage(21, ns)>>, 0)

\* set variables under every combination of its flags, every configuration
\* file and every kind of input file.
InitSetFlags ==
    /\ cmd = "set variables"
    /\ configFile \in ConfigFiles
    /\ groupID = "" /\ projectID = "" /\ recursive \in BOOLEAN
    /\ destinationGroupID \in {"", "20"} /\ destinationProjectID \in {"", "2"}
    /\ isDestination = FALSE /\ isSource \in BOOLEAN
    /\ \/ inputFile = NoInputFile
       \/ inputFile = ListFile(1)
       \/ inputFile = MapFile(<<NameApi>>)
       \/ inputFile = [ListFile(1) EXCEPT !.readable = FALSE]
       \/ inputFile = InputFile("variables.json", TRUE, "text", <<>>)
    /\ remote = Remote(<<>>, <<ProjectPage(21, <<NameApi>>)>>, 0)

\* get groups and get projects under every combination of their flags.
InitGet ==
    /\ \/ cmd = "get groups" /\ groupID = ""
       \/ cmd = "get projects" /\ groupID \in {"", "10"}
    /\ configFile \in ConfigFiles
    /\ projectID = "" /\ recursive = FALSE
    /\ destinationGroupID = "" /\ destinationProjectID = ""
    /\ isDestination \in BOOLEAN /\ isSource = FALSE
    /\ inputFile = NoInputFile
    /\ \E src \in SrcCollections :
         Len(src) > 1 /\ remote = Remote(src, <<ProjectPage(21, <<NameApi>>)>>, 0)

\* get variables under every combination of its flags and every
\* configuration file.
InitGetVariables ==
    /\ cmd = "get variables"
    /\ configFile \in ConfigFiles
    /\ groupID \in {"", "10"} /\ projectID \in {"", "1"} /\ recursive \in BOOLEAN
    /\ destinationGroupID = "" /\ destinationProjectID = ""
    /\ isDestination \in BOOLEAN /\ isSource = FALSE
    /\ inputFile = NoInputFile
    /\ remote = Remote(<<ProjectPage(1, <<NameApi>>)>>, <<ProjectPage(21, <<NameApi>>)>>, 1)

(***************************************************************************)
(* migrate variables.                                                      *)
(***************************************************************************)
\* The instance the get functions read: isDestination picks it.
ReadBase == IF isDestination THEN config.DestinationBaseURL ELSE config.SourceBaseURL

\* A faulty variant of ReadToken: the get functions send the source token
\* whatever instance they read.
sourceTokenAlways == config.SourceAccessToken

ReadToken == IF isDestination THEN config.DestinationAccessToken ELSE config.SourceAccessToken

\* A faulty variant of WriteBase: the writes go where the reads go.
instanceOfReads == ReadBase

\* The instance createVariablesForProject and createVariablesForGroup
\* address: isSource picks it.
WriteBase == IF isSource THEN config.SourceBaseURL ELSE config.DestinationBaseURL
WriteToken == IF isSource THEN config.SourceAccessToken ELSE config.DestinationAccessToken

\* A faulty variant of ListBase: the listing is the destination's, whatever
\* isSource says.
destinationAlways == config.DestinationBaseURL

\* The instance fetchAllProjects lists: isSource picks it.
ListBase == IF isSource THEN config.SourceBaseURL ELSE config.DestinationBaseURL
ListToken == IF isSource THEN config.SourceAccessToken ELSE config.DestinationAccessToken

InRecursiveMigrate == cmd = "migrate variables" /\ groupID # "" /\ recursive

\* Run, up to the source fetch: the flag check, loadConfig, EnsureDataDir.
MigrateVariablesRun ==
    /\ cmd = "migrate variables" /\ pc = "Run"
    /\ IF (groupID = "" /\ projectID = "") \/ (destinationGroupID = "" /\ destinationProjectID = "")
       THEN /\ out' = Append(out, Line("Error: Source and destination IDs must be provided", ""))
            /\ pc' = "done"
            /\ UNCHANGED config
       ELSE IF LoadConfig(configFile) # ""
       THEN /\ out' = Append(out, Line("Error loading config", LoadConfig(configFile)))
            /\ pc' = "done"
            /\ UNCHANGED config
       ELSE /\ config' = configFile
            /\ \E dirErr \in BOOLEAN :
                 IF dirErr
                 THEN /\ out' = Append(out, Line("Error: failed to create data directory", ""))
                      /\ pc' = "done"
                 ELSE /\ out' = out
                      /\ pc' = IF groupID # ""
                               THEN IF recursive THEN "getProjectsForGroup"
                                    ELSE "getVariablesForGroup"
                               ELSE "getVariablesForProject"
    /\ UNCHANGED <<input, reqs, projects, projIdx, variablesByProject, sourceVars, page,
                   allProjects, destProjects, todo, sourceProjectID, target, variables,
                   vi, retry, result, inputData, mirrorVars>>

\* getProjectsForGroup: one request, without a page parameter.
GetProjectsForGroup ==
    /\ pc = "getProjectsForGroup"
    /\ LET key == <<ReadBase, groupID>>
           path == <<"groups", groupID, "projects">>
       IN  IF NewRequestErr({groupID})
           THEN /\ out' = Append(out, Line("Error creating request for group", groupID))
                /\ projects' = NilSlice
                /\ reqs' = reqs
           ELSE \E kind \in GetOutcomes(key \in DOMAIN remote.projects) :
                  LET items == IF kind = "ok" THEN PageOf(remote.projects[key], 1) ELSE <<>>
                  IN  /\ reqs' = Append(reqs, Get(ReadBase, ReadToken, path, 0, kind, items))
                      /\ out' = IF kind = "ok" THEN out
                                ELSE Append(out, Line("Error fetching projects for group", groupID))
                      /\ projects' = IF kind = "ok" THEN Slice(FALSE, items) ELSE NilSlice
    /\ projIdx' = 1
    /\ variablesByProject' = <<>>
    /\ pc' = IF cmd = "get projects" THEN "saveOutput" ELSE "getAllVariablesForGroupProjects"
    /\ UNCHANGED <<input, config, sourceVars, page, allProjects, destProjects, todo,
                   sourceProjectID, target, variables, vi, retry, result, inputData, mirrorVars>>

\* getVariablesForProject / getVariablesForGroup: the request sent for the
\* variables of `owner` id (none when http.NewRequest fails) and the slice returned.
VariablesRequest(owner, id, kind) ==
    Get(ReadBase, ReadToken, <<owner, id, "variables">>, 0, kind,
        IF kind = "ok" THEN remote.variables[<<ReadBase, owner, id>>] ELSE <<>>)

VariablesResult(owner, id, kind) ==
    IF kind = "ok" THEN DecodeList(remote.variables[<<ReadBase, owner, id>>]) ELSE NilSlice

VariablesOutcomes(owner, id) == GetOutcomes(<<ReadBase, owner, id>> \in DOMAIN remote.variables)

\* One round of the loop of getAllVariablesForGroupProjects (with the call of
\* getVariablesForProject it makes), or its return.
GetAllVariablesForGroupProjects ==
    /\ pc = "getAllVariablesForGroupProjects"
    /\ IF projIdx > Len(projects.elems)
       THEN /\ sourceVars' = Dyn(MapOfMaps, variablesByProject)
            /\ pc' = "saveOutputToFile"
            /\ UNCHANGED <<reqs, out, projIdx, variablesByProject>>
       ELSE LET project == projects.elems[projIdx]
                id == ToString(project.id)
            IN  \E kind \in VariablesOutcomes("projects", id) :
                  /\ reqs' = Append(reqs, VariablesRequest("projects", id, kind))
                  /\ out' = IF kind = "ok" THEN out
                            ELSE Append(out, Line("Error fetching variables for project", id))
                  /\ variablesByProject' =
                        [k \in DOMAIN variablesByProject \cup {id} |->
                            IF k = id
                            THEN [project_name |-> project.name,
                                  variables |-> VariablesResult("projects", id, kind)]
                            ELSE variablesByProject[k]]
                  /\ projIdx' = projIdx + 1
                  /\ UNCHANGED <<pc, sourceVars>>
    /\ UNCHANGED <<input, config, projects, page, allProjects, destProjects, todo,
                   sourceProjectID, target, variables, vi, retry, result, inputData, mirrorVars>>

GetVariablesForProject ==
    /\ pc = "getVariablesForProject"
    /\ IF NewRequestErr({projectID})
       THEN /\ out' = Append(out, Line("Error creating request for project", projectID))
            /\ sourceVars' = Dyn(SliceOfMaps, NilSlice)
            /\ reqs' = reqs
       ELSE \E kind \in VariablesOutcomes("projects", projectID) :
              /\ reqs' = Append(reqs, VariablesRequest("projects", projectID, kind))
              /\ out' = IF kind = "ok" THEN out
                        ELSE Append(out, Line("Error fetching variables for project", projectID))
              /\ sourceVars' = Dyn(SliceOfMaps, VariablesResult("projects", projectID, kind))
    /\ pc' = "saveOutputToFile"
    /\ UNCHANGED <<input, config, projects, projIdx, variablesByProject, page, allProjects,
                   destProjects, todo, sourceProjectID, target, variables, vi, retry, result, inputData, mirrorVars>>

GetVariablesForGroup ==
    /\ pc = "getVariablesForGroup"
    /\ IF NewRequestErr({groupID})
       THEN /\ out' = Append(out, Line("Error creating request for group", groupID))
            /\ sourceVars' = Dyn(SliceOfMaps, NilSlice)
            /\ reqs' = reqs
       ELSE \E kind \in VariablesOutcomes("groups", groupID) :
              /\ reqs' = Append(reqs, VariablesRequest("groups", groupID, kind))
              /\ out' = IF kind = "ok" THEN out
                        ELSE Append(out, Line("Error fetching variables for group", groupID))
              /\ sourceVars' = Dyn(SliceOfMaps, VariablesResult("groups", groupID, kind))
    /\ pc' = "saveOutputToFile"
    /\ UNCHANGED <<input, config, projects, projIdx, variablesByProject, page, allProjects,
                   destProjects, todo, sourceProjectID, target, variables, vi, retry, result, inputData, mirrorVars>>

\* Run, from saving the snapshot to the start of the destination phase.  The
\* type assertions hold for whatever the get functions returned, a nil slice
\* included.
MigrateVariablesSave ==
    /\ cmd = "migrate variables" /\ pc = "saveOutputToFile"
    /\ \E saveErr \in BOOLEAN :
         IF saveErr
         THEN /\ out' = Append(out, Line("Error saving source variables", ""))
              /\ pc' = "done"
              /\ UNCHANGED <<page, allProjects, target, variables, vi>>
         ELSE IF groupID # "" /\ recursive
         THEN IF sourceVars.dyn # MapOfMaps
              THEN /\ out' = out \o <<Line("Successfully saved output to", ""),
                                      Line("Migrating variables recursively", groupID),
                                      Line("Error: Invalid source variables format", "")>>
                   /\ pc' = "done"
                   /\ UNCHANGED <<page, allProjects, target, variables, vi>>
              ELSE /\ out' = out \o <<Line("Successfully saved output to", ""),
                                      Line("Migrating variables recursively", groupID)>>
                   /\ pc' = "fetchAllProjects"
                   /\ page' = 1
                   /\ allProjects' = <<>>
                   /\ UNCHANGED <<target, variables, vi>>
         ELSE IF sourceVars.dyn # SliceOfMaps
              THEN /\ out' = out \o <<Line("Successfully saved output to", ""),
                                      Line("Migrating variables", ""),
                                      Line("Error: Invalid source variables format", "")>>
                   /\ pc' = "done"
                   /\ UNCHANGED <<page, allProjects, target, variables, vi>>
              ELSE /\ out' = out \o <<Line("Successfully saved output to", ""),
                                      Line("Migrating variables", "")>>
                   /\ pc' = IF groupID # "" THEN "createVariablesForGroup"
                            ELSE "createVariablesForProject"
                   /\ target' = IF groupID # "" THEN destinationGroupID
                                ELSE destinationProjectID
                   /\ variables' = sourceVars.val.elems
                   /\ vi' = 1
                   /\ UNCHANGED <<page, allProjects>>
    /\ UNCHANGED <<input, config, reqs, projects, projIdx, variablesByProject, sourceVars,
                   destProjects, todo, sourceProjectID, retry, result, inputData, mirrorVars>>

\* Faulty variants of fetchAllProjects: a failed request is taken for an empty
\* page; the loop ends at the first page that is not full.
neverAnError(kind) == kind = "none"

shortPage(items) == Len(items) < MaxPageLen

\* A faulty variant of fetchError: only a request that was not answered is an
\* error; an answer that cannot be used is taken for an empty page.
onlyTransportErrors(kind) == kind = "transport"

\* fetchAllProjects, fetchGroupProjects: whether the request for a page makes
\* them return an error (client.Do, the status check, io.ReadAll, the decoding).
fetchError(kind) == kind # "ok"

\* A faulty variant of lastPage: no page ends the loop.
neverLast(items) == FALSE

\* fetchAllProjects, fetchGroupProjects: the page that ends the loop.
lastPage(items) == Len(items) = 0

\* fetchAllProjects: one round of its loop.  An error returns (nil, err) to the
\* caller, which prints it and returns.
FetchAllProjects ==
    /\ pc = "fetchAllProjects" /\ page <= MaxPageNo
    /\ LET key == <<ListBase, destinationGroupID>>
           path == <<"groups", destinationGroupID, "projects">>
           errLine == IF cmd = "migrate variables"
                      THEN Line("Error fetching destination projects", "")
                      ELSE Line("Error fetching projects", "")
       IN  IF NewRequestErr({destinationGroupID})
           THEN /\ out' = Append(out, errLine)
                /\ pc' = "done"
                /\ UNCHANGED <<reqs, page, allProjects, destProjects, todo>>
           ELSE \E kind \in GetOutcomes(key \in DOMAIN remote.projects) :
                  LET items == IF kind = "ok" THEN ListedPage(key, page) ELSE <<>>
                  IN  /\ reqs' = Append(reqs, Get(ListBase, ListToken, path, page, kind, items))
                      /\ IF fetchError(kind)
                         THEN /\ out' = Append(out, errLine)
                              /\ pc' = "done"
                              /\ UNCHANGED <<page, allProjects, destProjects, todo>>
                         ELSE IF lastPage(items)
                         THEN /\ destProjects' = allProjects
                              /\ todo' = IF cmd = "migrate variables"
                                         THEN DOMAIN sourceVars.val
                                         ELSE DOMAIN inputData
                              /\ pc' = "range"
                              /\ UNCHANGED <<out, page, allProjects>>
                         ELSE /\ allProjects' = allProjects \o items
                              /\ page' = page + 1
                              /\ UNCHANGED <<out, pc, destProjects, todo>>
    /\ UNCHANGED <<input, config, projects, projIdx, variablesByProject, sourceVars,
                   sourceProjectID, target, variables, vi, retry, result, inputData, mirrorVars>>

\* Run: one round of the range over sourceVarsMap, up to its call of
\* createVariablesForProject; Go visits the keys of a map in any order.
MigrateVariablesRange ==
    /\ cmd = "migrate variables" /\ pc = "range"
    /\ IF todo = {}
       THEN /\ pc' = "Run.end"
            /\ UNCHANGED <<out, todo, sourceProjectID, target, variables, vi>>
       ELSE \E k \in todo :
              LET projectData == sourceVars.val[k]
                  projectName == projectData.project_name
                  found == findProjectIDByExactName(destProjects, projectName)
              IN  /\ todo' = todo \ {k}
                  /\ sourceProjectID' = k
                  /\ IF found.panic
                     THEN /\ pc' = "panic"
                          /\ UNCHANGED <<out, target, variables, vi>>
                     ELSE IF found.id = 0
                     THEN /\ out' = Append(out, Line("Warning: Project not found in destination group", k))
                          /\ UNCHANGED <<pc, target, variables, vi>>
                     ELSE /\ out' = Append(out, Line("Migrating variables for project", ToString(found.id)))
                          /\ target' = ToString(found.id)
                          /\ variables' = projectData.variables.elems
                          /\ vi' = 1
                          /\ pc' = "createVariablesForProject"
    /\ UNCHANGED <<input, config, reqs, projects, projIdx, variablesByProject, sourceVars,
                   page, allProjects, destProjects, retry, result, inputData, mirrorVars>>

\* A faulty variant of AfterCreate: in recursive mode Run returns after the
\* variables of the first matched project.
returnAfterFirstProject ==
    IF cmd = "migrate variables"
    THEN IF groupID # "" /\ recursive THEN "done" ELSE "Run.end"
    ELSE "done"


\* A faulty variant of AfterCreate: the destination group is listed again
\* after the variables of each project were created.
listingPerProject ==
    IF cmd = "migrate variables"
    THEN IF groupID # "" /\ recursive THEN "fetchAllProjects" ELSE "Run.end"
    ELSE IF destinationGroupID # "" /\ recursive THEN "fetchAllProjects" ELSE "done"


\* Where createVariablesFor* returns to.
AfterCreate ==
    IF cmd = "migrate variables"
    THEN IF groupID # "" /\ recursive THEN "range" ELSE "Run.end"
    ELSE IF destinationGroupID # "" /\ recursive THEN "range" ELSE "done"

\* A faulty variant of the range over the records: the first failure ends it.
stopAtFailure(i, err) == IF err # "" THEN Len(variables) + 1 ELSE i + 1

\* The range over the records: the position after record i, whose creation
\* returned err ("" for nil).
nextRecord(i, err) == i + 1

\* createVariablesForProject / createVariablesForGroup: one round of the loop
\* over the records (json.Marshal, then makeGitLabAPIRequest), or the return.
CreateVariablesFor(owner) ==
    IF vi > Len(variables)
    THEN /\ pc' = AfterCreate
         /\ UNCHANGED <<reqs, out, vi>>
    ELSE /\ pc' = pc
         /\ IF ~Marshalable(variables[vi])
            THEN /\ out' = Append(out, Line("Error marshaling variable payload", target))
                 /\ reqs' = reqs
                 /\ vi' = nextRecord(vi, "json: unsupported type")
            ELSE IF NewRequestErr({target})
            THEN /\ out' = Append(out, Line("Error creating variable", target))
                 /\ reqs' = reqs
                 /\ vi' = nextRecord(vi, makeGitLabAPIRequest(TRUE, <<>>))
            ELSE \E payload \in {Marshal(variables[vi])} :
                 \E o \in {PostOutcome(remote.answers, payload)} :
                 \E err \in {makeGitLabAPIRequest(FALSE, o)} :
                     /\ reqs' = Append(reqs,
                          Req("POST", WriteBase, WriteToken, <<owner, target, "variables">>, 0,
                              payload, sourceProjectID,
                              Resp(o.kind = "answered", o.status, <<>>)))
                     /\ out' = Append(out,
                          IF err # "" THEN Line("Error creating variable", target)
                          ELSE Line("Successfully created variable", target))
                     /\ vi' = nextRecord(vi, err)

CreateVariablesForProject ==
    /\ pc = "createVariablesForProject"
    /\ CreateVariablesFor("projects")
    /\ UNCHANGED <<input, config, projects, projIdx, variablesByProject, sourceVars, page,
                   allProjects, destProjects, todo, sourceProjectID, target, variables,
                   retry, result, inputData, mirrorVars>>

CreateVariablesForGroup ==
    /\ pc = "createVariablesForGroup"
    /\ CreateVariablesFor("groups")
    /\ UNCHANGED <<input, config, projects, projIdx, variablesByProject, sourceVars, page,
                   allProjects, destProjects, todo, sourceProjectID, target, variables,
                   retry, result, inputData, mirrorVars>>

\* Run: its last statement.
MigrateVariablesEnd ==
    /\ cmd = "migrate variables" /\ pc = "Run.end"
    /\ out' = Append(out, Line("Variables migration completed successfully", ""))
    /\ pc' = "done"
    /\ UNCHANGED <<input, config, reqs, projects, projIdx, variablesByProject, sourceVars,
                   page, allProjects, destProjects, todo, sourceProjectID, target,
                   variables, vi, retry, result, inputData, mirrorVars>>

(***************************************************************************)
(* set variables.                                                          *)
(***************************************************************************)
\* Run, up to the first call that sends a request.
SetVariablesRun ==
    /\ cmd = "set variables" /\ pc = "Run"
    /\ LET stop(line) ==
               /\ out' = Append(out, line)
               /\ pc' = "done"
               /\ UNCHANGED <<inputData, page, allProjects, target, variables, vi>>
           list == readInputFile(inputFile)
           map == readRecursiveIputFile(inputFile)
       IN  IF LoadConfig(configFile) # ""
           THEN stop(Line("Error:", LoadConfig(configFile))) /\ UNCHANGED config
           ELSE /\ config' = configFile
                /\ IF inputFile.path = ""
                   THEN stop(Line("Error: Input file path is required.", ""))
                   ELSE IF (destinationProjectID # "" /\ destinationGroupID # "")
                           \/ (destinationProjectID = "" /\ destinationGroupID = "")
                   THEN stop(Line("Error: Either --destination-project or --destination-group must be provided.", ""))
                   ELSE IF destinationGroupID # "" /\ recursive
                   THEN IF map.err # ""
                        THEN stop(Line("Error reading input file", map.err))
                        ELSE /\ inputData' = map.val
                             /\ pc' = "fetchAllProjects"
                             /\ page' = 1
                             /\ allProjects' = <<>>
                             /\ UNCHANGED <<out, target, variables, vi>>
                   ELSE IF list.err # ""
                        THEN stop(Line("Error reading input file", list.err))
                        ELSE /\ variables' = list.val
                             /\ vi' = 1
                             /\ target' = IF destinationGroupID # "" THEN destinationGroupID
                                          ELSE destinationProjectID
                             /\ pc' = IF destinationGroupID # "" THEN "createVariablesForGroup"
                                      ELSE "createVariablesForProject"
                             /\ UNCHANGED <<out, inputData, page, allProjects>>
    /\ UNCHANGED <<input, reqs, projects, projIdx, variablesByProject, sourceVars,
                   destProjects, todo, sourceProjectID, retry, result, mirrorVars>>

\* Run: one round of the range over inputData, up to its call of
\* createVariablesForProject.
SetVariablesRange ==
    /\ cmd = "set variables" /\ pc = "range"
    /\ IF todo = {}
       THEN /\ pc' = "done"
            /\ UNCHANGED <<out, todo, sourceProjectID, target, variables, vi>>
       ELSE \E k \in todo :
              LET projectData == inputData[k]
                  found == findProjectIDByExactName(destProjects, projectData.project_name)
              IN  /\ todo' = todo \ {k}
                  /\ sourceProjectID' = k
                  /\ IF "project_name" \notin DOMAIN projectData
                     THEN /\ out' = Append(out, Line("Error: Project name is not in the correct format.", ""))
                          /\ UNCHANGED <<pc, target, variables, vi>>
                     ELSE IF found.panic
                     THEN /\ pc' = "panic"
                          /\ UNCHANGED <<out, target, variables, vi>>
                     ELSE IF found.id = 0
                     THEN /\ out' = Append(out, Line("Error: Project not found in the destination.", k))
                          /\ UNCHANGED <<pc, target, variables, vi>>
                     ELSE IF projectData.variables.dyn # "[]interface {}"
                     THEN /\ out' = Append(out, Line("Error: Variables are not in the correct format.", k))
                          /\ UNCHANGED <<pc, target, variables, vi>>
                     ELSE /\ target' = ToString(found.id)
                          /\ variables' = projectData.variables.val
                          /\ vi' = 1
                          /\ pc' = "createVariablesForProject"
                          /\ out' = out
    /\ UNCHANGED <<input, config, reqs, projects, projIdx, variablesByProject, sourceVars,
                   page, allProjects, destProjects, retry, result, inputData, mirrorVars>>

(***************************************************************************)
(* get groups, get projects, get variables.                                *)
(***************************************************************************)
GenerateOutputFileName(command, gid, pid, isDest, isRecursive) ==
    LET prefix == IF isDest THEN "d" ELSE "s"
        identifier ==
            CASE command = "groups" -> "groups"
              [] command = "projects" ->
                    IF gid # "" THEN "projects_g-" \o gid ELSE "projects"
              [] command = "variables" ->
                    IF gid # ""
                    THEN IF isRecursive THEN "variables_g-" \o gid \o "_recursive"
                         ELSE "variables_g-" \o gid
                    ELSE IF pid # "" THEN "variables_p-" \o pid
                    ELSE "variables"
              [] OTHER -> ""
    IN  "data/" \o prefix \o "-gitlab_get_" \o identifier \o ".json"

GetGroupsRun ==
    /\ cmd = "get groups" /\ pc = "Run"
    /\ IF LoadConfig(configFile) # ""
       THEN /\ out' = Append(out, Line("Error loading config", LoadConfig(configFile)))
            /\ pc' = "done"
            /\ UNCHANGED <<config, retry>>
       ELSE /\ config' = configFile
            /\ pc' = "executeGitLabAPIRequest"
            /\ retry' = 0
            /\ out' = out
    /\ UNCHANGED <<input, reqs, projects, projIdx, variablesByProject, sourceVars, page,
                   allProjects, destProjects, todo, sourceProjectID, target, variables,
                   vi, result, inputData, mirrorVars>>

GetProjectsRun ==
    /\ cmd = "get projects" /\ pc = "Run"
    /\ IF LoadConfig(configFile) # ""
       THEN /\ out' = Append(out, Line("Error loading config", LoadConfig(configFile)))
            /\ pc' = "done"
            /\ UNCHANGED <<config, retry>>
       ELSE /\ config' = configFile
            /\ pc' = IF groupID # "" THEN "getProjectsForGroup" ELSE "executeGitLabAPIRequest"
            /\ retry' = 0
            /\ out' = out
    /\ UNCHANGED <<input, reqs, projects, projIdx, variablesByProject, sourceVars, page,
                   allProjects, destProjects, todo, sourceProjectID, target, variables,
                   vi, result, inputData, mirrorVars>>

\* The arguments the callers of executeGitLabAPIRequest pass.
baseURL == IF cmd = "get projects" THEN config.SourceBaseURL ELSE ReadBase
token == IF cmd = "get projects" THEN config.SourceAccessToken ELSE ReadToken
resource == IF cmd = "get projects" THEN "projects" ELSE "groups"

\* executeGitLabAPIRequest: one round of its loop, or the statements after it.
ExecuteGitLabAPIRequest ==
    /\ pc = "executeGitLabAPIRequest"
    /\ IF ~(retry < maxRetries)
       THEN /\ out' = Append(out, Line("Failed to execute GitLab API request after attempts", ToString(maxRetries)))
            /\ result' = Dyn("nil", <<>>)
            /\ pc' = "saveOutput"
            /\ UNCHANGED <<reqs, retry>>
       ELSE LET said == IF retry > 0 THEN Append(out, Line("Retrying request", ToString(retry + 1)))
                        ELSE out
            IN  IF NewRequestErr({resource})
                THEN /\ out' = Append(said, Line("Error creating request", ""))
                     /\ retry' = retry + 1
                     /\ UNCHANGED <<reqs, result, pc>>
                ELSE \E kind \in {"transport", "status", "decode", "ok"} :
                       LET items == IF kind = "ok" THEN PageOf(remote.resources[<<baseURL, resource>>], 1)
                                    ELSE <<>>
                       IN  /\ reqs' = Append(reqs, Get(baseURL, token, <<resource>>, 0, kind, items))
                           /\ CASE kind = "transport" ->
                                       /\ out' = Append(said, Line("Error making request", ""))
                                       /\ retry' = retry + 1
                                       /\ UNCHANGED <<result, pc>>
                                [] kind = "status" ->
                                       /\ out' = Append(said, Line("API request failed with status", ""))
                                       /\ IF retry = maxRetries - 1
                                          THEN /\ result' = Dyn("nil", <<>>)
                                               /\ pc' = "saveOutput"
                                               /\ retry' = retry
                                          ELSE /\ retry' = retry + 1
                                               /\ UNCHANGED <<result, pc>>
                                [] kind = "decode" ->
                                       /\ out' = Append(said, Line("Error decoding response", ""))
                                       /\ retry' = retry + 1
                                       /\ UNCHANGED <<result, pc>>
                                [] kind = "ok" ->
                                       /\ out' = said
                                       /\ result' = Dyn("[]interface {}", items)
                                       /\ pc' = "saveOutput"
                                       /\ retry' = retry
    /\ UNCHANGED <<input, config, projects, projIdx, variablesByProject, sourceVars, page,
                   allProjects, destProjects, todo, sourceProjectID, target, variables,
                   vi, inputData, mirrorVars>>

\* Run of get groups / get projects, after the fetch: EnsureDataDir,
\* GenerateOutputFileName, saveOutputToFile.
GetSave ==
    /\ cmd \in {"get groups", "get projects"} /\ pc = "saveOutput"
    /\ LET data == IF cmd = "get projects" /\ groupID # "" THEN Dyn(SliceOfMaps, projects)
                   ELSE result
           file == GenerateOutputFileName(resource, groupID, "", isDestination, FALSE)
       IN  \E dirErr \in BOOLEAN, saveErr \in BOOLEAN :
             out' = Append(out,
                      IF dirErr THEN Line("Error: failed to create data directory", "")
                      ELSE IF saveErr THEN Line("Error saving output to file", file)
                      ELSE Line("Successfully saved output to", [file |-> file, data |-> data]))
    /\ pc' = "done"
    /\ UNCHANGED <<input, config, reqs, projects, projIdx, variablesByProject, sourceVars,
                   page, allProjects, destProjects, todo, sourceProjectID, target,
                   variables, vi, retry, result, inputData, mirrorVars>>

\* Run of get variables, up to the fetch: loadConfig, the flag check,
\* EnsureDataDir.
GetVariablesRun ==
    /\ cmd = "get variables" /\ pc = "Run"
    /\ IF LoadConfig(configFile) # ""
       THEN /\ out' = Append(out, Line("Error loading config", LoadConfig(configFile)))
            /\ pc' = "done"
            /\ UNCHANGED config
       ELSE /\ config' = configFile
            /\ IF groupID = "" /\ projectID = ""
               THEN /\ out' = Append(out, Line("Error: Either --group or --project must be provided.", ""))
                    /\ pc' = "done"
               ELSE \E dirErr \in BOOLEAN :
                      IF dirErr
                      THEN /\ out' = Append(out, Line("Error: failed to create data directory", ""))
                           /\ pc' = "done"
                      ELSE IF groupID # ""
                      THEN /\ out' = out
                           /\ pc' = IF recursive THEN "getProjectsForGroup"
                                    ELSE "getVariablesForGroup"
                      ELSE IF recursive
                      THEN /\ out' = Append(out, Line("Error: Recursive mode is not supported for individual projects.", ""))
                           /\ pc' = "done"
                      ELSE /\ out' = out
                           /\ pc' = "getVariablesForProject"
    /\ UNCHANGED <<input, reqs, projects, projIdx, variablesByProject, sourceVars, page,
                   allProjects, destProjects, todo, sourceProjectID, target, variables,
                   vi, retry, result, inputData, mirrorVars>>

\* Run of get variables, after the fetch: saveOutputToFile.
GetVariablesSave ==
    /\ cmd = "get variables" /\ pc = "saveOutputToFile"
    /\ LET file == GenerateOutputFileName("variables", groupID, projectID, isDestination, recursive)
       IN  \E saveErr \in BOOLEAN :
             out' = Append(out,
                      IF saveErr THEN Line("Error saving output to file", file)
                      ELSE Line("Successfully saved output to", [file |-> file, data |-> sourceVars]))
    /\ pc' = "done"
    /\ UNCHANGED <<input, config, reqs, projects, projIdx, variablesByProject, sourceVars,
                   page, allProjects, destProjects, todo, sourceProjectID, target,
                   variables, vi, retry, result, inputData, mirrorVars>>

(***************************************************************************)
(* mirror (cmd/mirror.go).  Its flags -p, -P, -g, -G are the variables     *)
(* projectID, destinationProjectID, groupID, destinationGroupID.           *)
(***************************************************************************)
\* The status the destination answers the creation of a mirror on project id with.
MirrorStatus(id) ==
    LET n == CHOOSE i \in 0..99 : ToString(i) = id
    IN  <<StatusCreated, StatusOK, 422>>[(n % 3) + 1]

\* The project an instance answers GET /projects/:id with, if it holds one.
ProjectsOf(base) ==
    UNION {Range(Concat(remote.projects[k])) : k \in {x \in DOMAIN remote.projects : x[1] = base}}

HasProject(base, id) == \E p \in ProjectsOf(base) : ToString(p.id) = id

ProjectByID(base, id) == CHOOSE p \in ProjectsOf(base) : ToString(p.id) = id

\* What the user types at the two prompts (nothing once stdin is closed).
Typed == {<<"mirror-user", "mirror-password">>, <<"mirror-user", "">>, <<"", "">>}

\* A faulty variant of needsCredentials: only the user is looked at.
userMissing(c) == c.AuthUser = ""

\* mirrorProject: whether it prompts for the mirror credentials.
needsCredentials(c) == c.AuthUser = "" \/ c.AuthPassword = ""

\* MirrorPayload.URL: strings.Replace puts the credentials after "https://".
MirrorURL(c, path) ==
    IF c.DestinationBaseURL[1] = "https"
    THEN <<"https", c.AuthUser, c.AuthPassword, c.DestinationBaseURL[2], path, ".git">>
    ELSE <<c.DestinationBaseURL[1], "", "", c.DestinationBaseURL[2], path, ".git">>

\* A faulty variant of JoinPath: the key is the project name alone.
nameOnly(namespace, name) == name

\* fmt.Sprintf("%s/%s", namespace["name"], name): the key of targetProjectMap.
JoinPath(namespace, name) == namespace \o <<"/">> \o name

\* A faulty variant of BuildTargetMap: an entry of the map is never replaced.
RECURSIVE keepFirst(_, _)
keepFirst(ps, n) ==
    IF n = 0 THEN <<>>
    ELSE LET m == keepFirst(ps, n - 1)
             path == JoinPath(ps[n].namespace.name, ps[n].name)
         IN  IF path \in DOMAIN m THEN m
             ELSE [k \in DOMAIN m \cup {path} |-> IF k = path THEN ToString(ps[n].id) ELSE m[k]]


\* mirrorGroup: targetProjectMap after the loop over the first n target projects.
RECURSIVE BuildTargetMap(_, _)
BuildTargetMap(ps, n) ==
    IF n = 0 THEN <<>>
    ELSE LET m == BuildTargetMap(ps, n - 1)
             p == ps[n]
         IN  IF "namespace" \in DOMAIN p /\ "name" \in DOMAIN p /\ "id" \in DOMAIN p
             THEN LET path == JoinPath(p.namespace.name, p.name)
                  IN  [k \in DOMAIN m \cup {path} |-> IF k = path THEN ToString(p.id) ELSE m[k]]
             ELSE m

InGroupMirror == ~(projectID # "" /\ destinationProjectID # "")

MirrorRun ==
    /\ cmd = "mirror" /\ pc = "Run"
    /\ IF LoadConfig(configFile) # ""
       THEN /\ out' = Append(out, Line("Error: failed to load config", LoadConfig(configFile)))
            /\ pc' = "done"
            /\ UNCHANGED <<config, page, allProjects, sourceID, targetID>>
       ELSE /\ config' = configFile
            /\ IF (projectID = "" /\ groupID = "") \/ (destinationProjectID = "" /\ destinationGroupID = "")
               THEN /\ out' = Append(out, Line("Error: must specify either project IDs (-p, -P) or group IDs (-g, -G)", ""))
                    /\ pc' = "done"
                    /\ UNCHANGED <<page, allProjects, sourceID, targetID>>
               ELSE IF projectID # "" /\ destinationProjectID # ""
               THEN /\ sourceID' = projectID
                    /\ targetID' = destinationProjectID
                    /\ pc' = "mirrorProject"
                    /\ UNCHANGED <<out, page, allProjects>>
               ELSE IF groupID # "" /\ destinationGroupID # ""
               THEN /\ pc' = "fetchGroupProjects(source)"
                    /\ page' = 1
                    /\ allProjects' = <<>>
                    /\ UNCHANGED <<out, sourceID, targetID>>
               ELSE /\ pc' = "done"
                    /\ UNCHANGED <<out, page, allProjects, sourceID, targetID>>
    /\ UNCHANGED <<input, reqs, projects, projIdx, variablesByProject, sourceVars,
                   destProjects, todo, sourceProjectID, target, variables, vi, retry, result,
                   inputData, sourceProjects, targetProjects, targetProjectMap, si,
                   pathWithNamespace, configOnDisk>>

\* fetchGroupProjects: one round of its loop, for the source listing and then
\* for the target listing; an error ends mirrorGroup and Run.
FetchGroupProjects ==
    /\ pc \in {"fetchGroupProjects(source)", "fetchGroupProjects(target)"}
    /\ page <= MaxPageNo
    /\ LET ofSource == pc = "fetchGroupProjects(source)"
           base == IF ofSource THEN config.SourceBaseURL ELSE config.DestinationBaseURL
           accessToken == IF ofSource THEN config.SourceAccessToken ELSE config.DestinationAccessToken
           gid == IF ofSource THEN groupID ELSE destinationGroupID
           errLine == IF ofSource THEN Line("Error: failed to fetch source projects", "")
                      ELSE Line("Error: failed to fetch target projects", "")
           giveUp == /\ out' = Append(out, errLine)
                     /\ pc' = "done"
                     /\ UNCHANGED <<page, allProjects, sourceProjects, targetProjects,
                                    targetProjectMap, si>>
       IN  IF NewRequestErr({gid})
           THEN giveUp /\ reqs' = reqs
           ELSE \E kind \in GetOutcomes(<<base, gid>> \in DOMAIN remote.projects) :
                  LET items == IF kind = "ok" THEN ListedPage(<<base, gid>>, page)
                               ELSE <<>>
                  IN  /\ reqs' = Append(reqs,
                            Get(base, accessToken, <<"groups", gid, "projects">>, page, kind, items))
                      /\ IF fetchError(kind) THEN giveUp
                         ELSE IF ~lastPage(items)
                         THEN /\ allProjects' = allProjects \o items
                              /\ page' = page + 1
                              /\ UNCHANGED <<out, pc, sourceProjects, targetProjects,
                                             targetProjectMap, si>>
                         ELSE IF ofSource
                         THEN /\ sourceProjects' = allProjects
                              /\ pc' = "fetchGroupProjects(target)"
                              /\ page' = 1
                              /\ allProjects' = <<>>
                              /\ UNCHANGED <<out, targetProjects, targetProjectMap, si>>
                         ELSE /\ targetProjects' = allProjects
                              /\ targetProjectMap' = BuildTargetMap(allProjects, Len(allProjects))
                              /\ si' = 1
                              /\ pc' = "mirrorGroup"
                              /\ UNCHANGED <<out, page, allProjects, sourceProjects>>
    /\ UNCHANGED <<input, config, projects, projIdx, variablesByProject, sourceVars,
                   destProjects, todo, sourceProjectID, target, variables, vi, retry, result,
                   inputData, sourceID, targetID, pathWithNamespace, configOnDisk>>

\* mirrorGroup: one round of the loop over sourceProjects, up to its call of
\* mirrorProject, or the return.
MirrorGroup ==
    /\ pc = "mirrorGroup"
    /\ IF si > Len(sourceProjects)
       THEN /\ pc' = "done"
            /\ UNCHANGED <<out, si, sourceID, targetID>>
       ELSE LET sourceProject == sourceProjects[si]
                sourcePath == JoinPath(sourceProject.namespace.name, sourceProject.name)
            IN  /\ si' = si + 1
                /\ IF "namespace" \notin DOMAIN sourceProject
                   THEN /\ out' = Append(out, Line("Warning: Could not get namespace for source project", ""))
                        /\ UNCHANGED <<pc, sourceID, targetID>>
                   ELSE IF "name" \notin DOMAIN sourceProject
                   THEN /\ out' = Append(out, Line("Warning: Could not get name for source project", ""))
                        /\ UNCHANGED <<pc, sourceID, targetID>>
                   ELSE IF sourcePath \notin DOMAIN targetProjectMap
                   THEN /\ out' = Append(out, Line("Warning: Target project not found", sourcePath))
                        /\ UNCHANGED <<pc, sourceID, targetID>>
                   ELSE /\ sourceID' = ToString(sourceProject.id)
                        /\ targetID' = targetProjectMap[sourcePath]
                        /\ pc' = "mirrorProject"
                        /\ out' = out
    /\ UNCHANGED <<input, config, reqs, projects, projIdx, variablesByProject, sourceVars,
                   page, allProjects, destProjects, todo, sourceProjectID, target, variables,
                   vi, retry, result, inputData, sourceProjects, targetProjects,
                   targetProjectMap, pathWithNamespace, configOnDisk>>

\* The line an error returned by mirrorProject ends in, and where the run goes.
MirrorFailed(why) ==
    IF InGroupMirror THEN Line("Error mirroring project", why) ELSE Line("Error:", why)

\* A faulty variant of AfterMirror: mirrorGroup returns what its first call
\* of mirrorProject returned.
returnAfterFirstPair == "done"


AfterMirror == IF InGroupMirror THEN "mirrorGroup" ELSE "done"

\* mirrorProject, up to the creation request: the GET of the source project,
\* the prompts, writeConfigToFile.
MirrorProject ==
    /\ pc = "mirrorProject"
    /\ IF NewRequestErr({sourceID})
       THEN /\ out' = Append(out, MirrorFailed("failed to create request"))
            /\ pc' = AfterMirror
            /\ UNCHANGED <<reqs, config, pathWithNamespace, configOnDisk>>
       ELSE \E kind \in GetOutcomes(HasProject(config.SourceBaseURL, sourceID)) :
              LET items == IF kind = "ok" THEN <<ProjectByID(config.SourceBaseURL, sourceID)>>
                           ELSE <<>>
              IN  /\ reqs' = Append(reqs, Get(config.SourceBaseURL, config.SourceAccessToken,
                                               <<"projects", sourceID>>, 0, kind, items))
                  /\ IF kind # "ok"
                     THEN /\ out' = Append(out, MirrorFailed("failed to get project details"))
                          /\ pc' = AfterMirror
                          /\ UNCHANGED <<config, pathWithNamespace, configOnDisk>>
                     ELSE /\ pathWithNamespace' = items[1].path_with_namespace
                          /\ IF needsCredentials(config)
                             THEN \E typed \in Typed, writeErr \in BOOLEAN :
                                    /\ config' = [config EXCEPT !.AuthUser = typed[1],
                                                                 !.AuthPassword = typed[2]]
                                    /\ IF writeErr
                                       THEN /\ out' = out \o <<Line("Enter mirror username: ", ""),
                                                                Line("Enter mirror password: ", ""),
                                                                MirrorFailed("failed to save config")>>
                                            /\ pc' = AfterMirror
                                            /\ UNCHANGED configOnDisk
                                       ELSE /\ out' = out \o <<Line("Enter mirror username: ", ""),
                                                                Line("Enter mirror password: ", "")>>
                                            /\ configOnDisk' = config'
                                            /\ pc' = "mirrorProject(create)"
                             ELSE /\ pc' = "mirrorProject(create)"
                                  /\ UNCHANGED <<out, config, configOnDisk>>
    /\ UNCHANGED <<input, projects, projIdx, variablesByProject, sourceVars, page,
                   allProjects, destProjects, todo, sourceProjectID, target, variables, vi,
                   retry, result, inputData, sourceProjects, targetProjects,
                   targetProjectMap, si, sourceID, targetID>>

\* mirrorProject: the creation request and the return.
MirrorProjectCreate ==
    /\ pc = "mirrorProject(create)"
    /\ pc' = AfterMirror
    /\ LET payload == [enabled |-> TRUE, url |-> MirrorURL(config, pathWithNamespace)]
       IN  IF NewRequestErr({targetID})
           THEN /\ out' = Append(out, MirrorFailed("failed to create request"))
                /\ reqs' = reqs
           ELSE \E o \in {[kind |-> "transport", status |-> 0],
                          [kind |-> "answered", status |-> MirrorStatus(targetID)]} :
                  /\ reqs' = Append(reqs,
                        Req("POST", config.DestinationBaseURL, config.DestinationAccessToken,
                            <<"projects", targetID, "remote_mirrors">>, 0, payload, sourceID,
                            Resp(o.kind = "answered", o.status, <<>>)))
                  /\ out' = Append(out,
                        IF o.kind = "transport" THEN MirrorFailed("failed to send request")
                        ELSE IF o.status # StatusCreated THEN MirrorFailed("failed to create mirror")
                        ELSE Line("Successfully created mirror for project", <<sourceID, targetID>>))
    /\ UNCHANGED <<input, config, projects, projIdx, variablesByProject, sourceVars, page,
                   allProjects, destProjects, todo, sourceProjectID, target, variables, vi,
                   retry, result, inputData, mirrorVars>>

\* mirror -g 10 -G 20: any source group against a small target group, and a
\* one-project source group against any paging of the target group; with and
\* without stored mirror credentials.
ConfigWithCredentials ==
    [ValidConfig EXCEPT !.AuthUser = "mirror-user", !.AuthPassword = "mirror-password"]

InitMirrorGroup ==
    /\ cmd = "mirror"
    /\ configFile \in {ValidConfig, ConfigWithCredentials}
    /\ groupID = "10" /\ projectID = "" /\ recursive = FALSE
    /\ destinationGroupID = "20" /\ destinationProjectID = ""
    /\ isDestination = FALSE /\ isSource = FALSE
    /\ inputFile = NoInputFile
    /\ \/ \E src \in SrcCollections, ns \in SeqsUpTo(Names, 1) :
            remote = Remote(src, <<ProjectPage(21, ns)>>, 0)
       \/ \E dst \in DstCollections : remote = Remote(<<ProjectPage(1, <<NameApi>>)>>, dst, 0)

\* One page of projects numbered from firstID on, project j named names[j]
\* in the namespace spaces[j].
ProjectPageIn(firstID, names, spaces) ==
    [j \in 1..Len(names) |->
        [id |-> firstID + j - 1, name |-> names[j], namespace |-> [name |-> spaces[j]],
         path_with_namespace |-> <<spaces[j], names[j]>>]]

Namespaces == {Team, Ops}

\* mirror -g 10 -G 20: a source group of two projects, with its subgroups,
\* against a target group of two projects of any names in any namespaces;
\* with and without stored mirror credentials.
InitMirrorPairs ==
    /\ cmd = "mirror"
    /\ configFile \in {ValidConfig, ConfigWithCredentials}
    /\ groupID = "10" /\ projectID = "" /\ recursive = FALSE
    /\ destinationGroupID = "20" /\ destinationProjectID = ""
    /\ isDestination = FALSE /\ isSource = FALSE
    /\ inputFile = NoInputFile
    /\ \E space \in Namespaces, ns \in [1..2 -> Names], ss \in [1..2 -> Namespaces] :
         remote = Remote(<<ProjectPageIn(1, <<NameApi, NameApiV2>>, <<Team, space>>)>>,
                         <<ProjectPageIn(21, ns, ss)>>, 0)


\* mirror -p 1 -P 21 (22, 23) with a destination base URL of scheme http,
\* which Validate accepts; with and without stored mirror credentials.
HTTPDestination == <<"http", "gitlab.destination.example">>

InitMirrorHTTP ==
    /\ cmd = "mirror"
    /\ configFile \in {[ValidConfig EXCEPT !.DestinationBaseURL = HTTPDestination],
                       [ConfigWithCredentials EXCEPT !.DestinationBaseURL = HTTPDestination]}
    /\ groupID = "" /\ projectID = "1" /\ recursive = FALSE
    /\ destinationGroupID = "" /\ destinationProjectID \in {"21", "22", "23"}
    /\ isDestination = FALSE /\ isSource = FALSE
    /\ inputFile = NoInputFile
    /\ remote = Remote(<<ProjectPage(1, <<NameApi>>)>>, <<ProjectPage(21, <<NameApi>>)>>, 0)


\* set variables -G 20 -r and mirror -g 10 -G 20 against a listing that never
\* answers an empty page.
InitEndless ==
    /\ \/ cmd = "set variables" /\ groupID = "" /\ recursive = TRUE
          /\ inputFile = MapFile(<<NameApi>>)
       \/ cmd = "mirror" /\ groupID = "10" /\ recursive = FALSE
          /\ inputFile = NoInputFile
    /\ configFile = ConfigWithCredentials
    /\ projectID = "" /\ destinationGroupID = "20" /\ destinationProjectID = ""
    /\ isDestination = FALSE /\ isSource = FALSE
    /\ \E k \in {<<SourceURL, "10">>, <<DestinationURL, "20">>} :
         remote = [Remote(<<ProjectPage(1, <<NameApi>>)>>, <<ProjectPage(21, <<NameApi>>)>>, 0)
                      EXCEPT !.endless = {k}]


\* Records of a destination listing: well formed, without a name (or with
\* one that is not a string), without an id (or with one that is not a
\* number).
ListedRecords ==
    {[id |-> 21, name |-> NameApi], [id |-> 22, name |-> NameApiV2],
     [id |-> 23], [name |-> NameApi], [name |-> NameApiV2]}

Malformed(p) == "name" \notin DOMAIN p \/ "id" \notin DOMAIN p

\* migrate variables -g 10 -G 20 -r and set variables -G 20 -r against a
\* destination listing of one page that holds a malformed record.
InitMalformed ==
    /\ \/ cmd = "migrate variables" /\ groupID = "10" /\ inputFile = NoInputFile
       \/ cmd = "set variables" /\ groupID = "" /\ inputFile = MapFile(<<NameApi>>)
    /\ configFile = ValidConfig
    /\ projectID = "" /\ recursive = TRUE
    /\ destinationGroupID = "20" /\ destinationProjectID = ""
    /\ isDestination = FALSE /\ isSource = FALSE
    /\ \E dst \in SeqsUpTo(ListedRecords, MaxProjects) :
         /\ \E i \in DOMAIN dst : Malformed(dst[i])
         /\ remote = Remote(<<ProjectPage(1, <<NameApi>>)>>, <<dst>>, 1)


\* mirror under every combination of its flags and every configuration file.
InitMirrorFlags ==
    /\ cmd = "mirror"
    /\ configFile \in ConfigFiles \cup {ConfigWithCredentials}
    /\ groupID \in {"", "10"} /\ projectID \in {"", "1"} /\ recursive = FALSE
    /\ destinationGroupID \in {"", "20"} /\ destinationProjectID \in {"", "21", "22", "23"}
    /\ isDestination = FALSE /\ isSource = FALSE
    /\ inputFile = NoInputFile
    /\ remote = Remote(<<ProjectPage(1, <<NameApi>>)>>, <<ProjectPage(21, <<NameApi>>)>>, 0)

Init ==
    /\ \/ InitMigrateRecursive \/ InitMigrateFlags \/ InitMigrateRefused
       \/ InitSetExecutor \/ InitSetRecursive \/ InitSetFlags
       \/ InitGet \/ InitGetVariables
       \/ InitMirrorGroup \/ InitMirrorPairs \/ InitMirrorFlags \/ InitMirrorHTTP \/ InitEndless
    /\ InitLocals

Next ==
    \/ MigrateVariablesRun
    \/ GetProjectsForGroup
    \/ GetAllVariablesForGroupProjects
    \/ GetVariablesForProject
    \/ GetVariablesForGroup
    \/ MigrateVariablesSave
    \/ FetchAllProjects
    \/ MigrateVariablesRange
    \/ CreateVariablesForProject
    \/ CreateVariablesForGroup
    \/ MigrateVariablesEnd
    \/ SetVariablesRun
    \/ SetVariablesRange
    \/ GetGroupsRun
    \/ GetProjectsRun
    \/ ExecuteGitLabAPIRequest
    \/ GetSave
    \/ GetVariablesRun
    \/ GetVariablesSave
    \/ MirrorRun
    \/ FetchGroupProjects
    \/ MirrorGroup
    \/ MirrorProject
    \/ MirrorProjectCreate

Spec == Init /\ [][Next]_vars

\* The runs of migrate variables alone.  The program is sequential and every
\* request it sends carries a timeout, so a step that can be taken is taken.
MigrateInit ==
    /\ InitMigrateFlags \/ InitMigrateRefused
    /\ InitLocals

MigrateNext ==
    \/ MigrateVariablesRun
    \/ GetProjectsForGroup
    \/ GetAllVariablesForGroupProjects
    \/ GetVariablesForProject
    \/ GetVariablesForGroup
    \/ MigrateVariablesSave
    \/ FetchAllProjects
    \/ MigrateVariablesRange
    \/ CreateVariablesForProject
    \/ CreateVariablesForGroup
    \/ MigrateVariablesEnd

MigrateSpec == MigrateInit /\ [][MigrateNext]_vars /\ WF_vars(MigrateNext)

\* The runs that list a group page by page or fetch a top-level collection,
\* every request of which ends, answered or failed (executeGitLabAPIRequest
\* sets a timeout; the listings end when the remote answers).
PagingInit ==
    /\ InitSetRecursive \/ InitMirrorGroup \/ InitGet \/ InitEndless
    /\ InitLocals

PagingNext ==
    \/ SetVariablesRun
    \/ FetchAllProjects
    \/ SetVariablesRange
    \/ CreateVariablesForProject
    \/ GetGroupsRun
    \/ GetProjectsRun
    \/ GetProjectsForGroup
    \/ ExecuteGitLabAPIRequest
    \/ GetSave
    \/ MirrorRun
    \/ FetchGroupProjects
    \/ MirrorGroup
    \/ MirrorProject
    \/ MirrorProjectCreate

PagingSpec == PagingInit /\ [][PagingNext]_vars /\ WF_vars(PagingNext)

\* The recursive runs against destination listings with malformed records.
ResolverInit ==
    /\ InitMalformed
    /\ InitLocals

ResolverNext ==
    \/ MigrateVariablesRun
    \/ GetProjectsForGroup
    \/ GetAllVariablesForGroupProjects
    \/ MigrateVariablesSave
    \/ FetchAllProjects
    \/ MigrateVariablesRange
    \/ SetVariablesRun
    \/ SetVariablesRange
    \/ CreateVariablesForProject
    \/ MigrateVariablesEnd

ResolverSpec == ResolverInit /\ [][ResolverNext]_vars

(***************************************************************************)
(* Properties.                                                             *)
(***************************************************************************)
Posts == SelectSeq(reqs, LAMBDA r : r.method = "POST")

Said(msg) == \E i \in DOMAIN out : out[i].msg = msg

\* The requests of the paginated listing of group gid of instance base.
Listings(base, gid) ==
    SelectSeq(reqs, LAMBDA r : /\ r.method = "GET" /\ r.base = base /\ r.page >= 1
                               /\ r.path = <<"groups", gid, "projects">>)

\* The number of pages before the first empty one, and the records on them.
RECURSIVE Leading(_)
Leading(pages) ==
    IF pages = <<>> \/ Head(pages) = <<>> THEN 0 ELSE 1 + Leading(Tail(pages))

Listed(pages) == Concat(SubSeq(pages, 1, Leading(pages)))

PagesHeld(base, gid) ==
    IF <<base, gid>> \in DOMAIN remote.projects THEN remote.projects[<<base, gid>>] ELSE <<>>

InRecursiveSet == cmd = "set variables" /\ destinationGroupID # "" /\ recursive

\* C1: a paginated listing asks for pages 1, 2, 3, ... in this order, stops at
\* the first empty page and returns the records of the pages before it, in
\* order: k non-empty pages take k + 1 requests.  For fetchAllProjects and for
\* both listings of mirrorGroup.
PaginationIsExact ==
    /\ \A b \in {SourceURL, DestinationURL}, g \in {"10", "20"} :
          \A i \in DOMAIN Listings(b, g) : Listings(b, g)[i].page = i
    /\ (cmd \in {"migrate variables", "set variables"} /\ pc = "range") =>
          /\ destProjects = Listed(PagesHeld(ListBase, destinationGroupID))
          /\ Len(Listings(ListBase, destinationGroupID))
                = Leading(PagesHeld(ListBase, destinationGroupID)) + 1
    /\ (cmd = "mirror" /\ pc \in {"fetchGroupProjects(target)", "mirrorGroup"}) =>
          /\ sourceProjects = Listed(PagesHeld(SourceURL, groupID))
          /\ Len(Listings(SourceURL, groupID)) = Leading(PagesHeld(SourceURL, groupID)) + 1
    /\ (cmd = "mirror" /\ pc = "mirrorGroup") =>
          /\ targetProjects = Listed(PagesHeld(DestinationURL, destinationGroupID))
          /\ Len(Listings(DestinationURL, destinationGroupID))
                = Leading(PagesHeld(DestinationURL, destinationGroupID)) + 1

\* fetchAllProjects has returned every record of MaxPages full pages, in
\* MaxPages + 1 requests.
PaginationWitness ==
    /\ cmd = "migrate variables" /\ pc = "range"
    /\ Leading(PagesHeld(ListBase, destinationGroupID)) = MaxPages
    /\ Len(destProjects) = MaxPages * MaxPageLen
    /\ Len(Listings(ListBase, destinationGroupID)) = MaxPages + 1

\* The attempts of executeGitLabAPIRequest.
Attempts == SelectSeq(reqs, LAMBDA r : r.method = "GET" /\ r.path = <<resource>>)

InRetriedFetch == cmd = "get groups" \/ (cmd = "get projects" /\ groupID = "")

\* C2: executeGitLabAPIRequest makes at most 3 attempts whatever the failures
\* are, none after a successful one; it returns the decoded answer of the
\* successful attempt, and nil once 3 attempts have failed.
RetryBudget ==
    InRetriedFetch =>
        /\ Len(Attempts) <= 3
        /\ \A i \in DOMAIN Attempts : Attempts[i].resp.ok => i = Len(Attempts)
        /\ (pc \in {"saveOutput", "done"} /\ config # NoConfig) =>
              IF Attempts # <<>> /\ Last(Attempts).resp.ok
              THEN result = Dyn("[]interface {}", Last(Attempts).resp.items)
              ELSE result = Dyn("nil", <<>>) /\ Len(Attempts) = 3

\* A transport error, then a decode error, then the answer: it is returned.
RetryWitness ==
    /\ cmd = "get groups" /\ pc = "saveOutput"
    /\ Len(Attempts) = 3 /\ Last(Attempts).resp.ok
    /\ result = Dyn("[]interface {}", PageOf(remote.resources[<<baseURL, "groups">>], 1))
    /\ out = <<Line("Error making request", ""), Line("Retrying request", "2"),
               Line("Error decoding response", ""), Line("Retrying request", "3")>>

\* The id of the first record of ps named n, 0 if there is none.
FirstNamed(ps, n) ==
    IF \E i \in DOMAIN ps : ps[i].name = n
    THEN ps[CHOOSE i \in DOMAIN ps : ps[i].name = n /\ \A j \in 1..(i - 1) : ps[j].name # n].id
    ELSE 0

\* The name the range of a recursive run is resolving.
CurrentName ==
    IF cmd = "migrate variables" THEN sourceVars.val[sourceProjectID].project_name
    ELSE inputData[sourceProjectID].project_name

\* C3: findProjectIDByExactName returns the id of the first record of the
\* listing whose name equals the given name character for character (never of
\* one whose name extends it or differs in case), and 0 if no record does; the
\* recursive runs create variables on the project so resolved.
ResolverIsExactFirstMatch ==
    /\ \A n \in Names :
          findProjectIDByExactName(destProjects, n)
            = [panic |-> FALSE, id |-> FirstNamed(destProjects, n)]
    /\ ((InRecursiveMigrate \/ InRecursiveSet) /\ pc = "createVariablesForProject") =>
          /\ FirstNamed(destProjects, CurrentName) # 0
          /\ target = ToString(FirstNamed(destProjects, CurrentName))

\* "api" is resolved against the listing <<"api-v2", "api">>: the second record.
ResolverWitness ==
    /\ InRecursiveMigrate /\ pc = "createVariablesForProject"
    /\ Len(destProjects) = 2
    /\ destProjects[1].name = NameApiV2 /\ destProjects[2].name = NameApi
    /\ CurrentName = NameApi
    /\ target = ToString(destProjects[2].id)

\* set variables creating the records of a list file on one project or group.
InExecutor == cmd = "set variables" /\ ~(destinationGroupID # "" /\ recursive) /\ vi >= 1

Accepted(v) ==
    LET status == remote.answers[KeyText(Marshal(v))]
    IN  status # Dropped /\ status < 400

\* C4: createVariablesForProject / createVariablesForGroup send one POST per
\* record of the list, in the order of the list, whatever became of the
\* records before; each record is reported on its own, and nothing else is
\* sent.
ExecutorSendsEveryRecord ==
    InExecutor =>
        /\ variables = readInputFile(inputFile).val
        /\ Len(reqs) = vi - 1 /\ Len(out) = vi - 1
        /\ \A i \in 1..(vi - 1) :
              /\ reqs[i].method = "POST"
              /\ reqs[i].base = WriteBase /\ reqs[i].token = WriteToken
              /\ reqs[i].path = <<IF destinationGroupID # "" THEN "groups" ELSE "projects",
                                  target, "variables">>
              /\ reqs[i].body = Marshal(variables[i])
              /\ out[i] = IF Accepted(variables[i])
                          THEN Line("Successfully created variable", target)
                          ELSE Line("Error creating variable", target)
        /\ pc = "done" => vi = Len(variables) + 1

\* Of MaxFileVars records the second is answered 422: the others are created.
ExecutorWitness ==
    /\ InExecutor /\ pc = "done"
    /\ Len(variables) = MaxFileVars /\ Len(reqs) = MaxFileVars
    /\ reqs[2].resp.status = 422
    /\ \A i \in 1..MaxFileVars : i # 2 => out[i].msg = "Successfully created variable"
    /\ out[2].msg = "Error creating variable"

\* The POSTs made for source project k.
PostsFor(k) == SelectSeq(reqs, LAMBDA r : r.method = "POST" /\ r.src = k)

\* The destination group as a client paging through it sees it.
DestListing == Listed(PagesHeld(DestinationURL, destinationGroupID))

Unmatched(name) == \A i \in DOMAIN DestListing : DestListing[i].name # name

\* C5: in migrate variables -g -G -r no POST is made for a fetched source
\* project whose name no destination project has; when the range is over, for
\* every other fetched source project every variable fetched has been sent, in
\* any order the projects were visited in.
UnmatchedSkipped ==
    (InRecursiveMigrate /\ sourceVars.dyn = MapOfMaps) =>
        \A k \in DOMAIN sourceVars.val :
            LET entry == sourceVars.val[k]
            IN  IF Unmatched(entry.project_name)
                THEN PostsFor(k) = <<>>
                ELSE pc = "Run.end" =>
                        /\ Len(PostsFor(k)) = Len(entry.variables.elems)
                        /\ \A i \in DOMAIN PostsFor(k) :
                              PostsFor(k)[i].body = Marshal(entry.variables.elems[i])

\* Two source projects, the one visited first unmatched: the variables of the
\* other were sent all the same.
UnmatchedWitness ==
    /\ InRecursiveMigrate /\ pc = "Run.end"
    /\ DOMAIN sourceVars.val = {"1", "2"}
    /\ Unmatched(sourceVars.val["2"].project_name)
    /\ ~Unmatched(sourceVars.val["1"].project_name)
    /\ Len(PostsFor("1")) = MaxVars
    /\ \E i \in DOMAIN out :
          /\ out[i] = Line("Warning: Project not found in destination group", "2")
          /\ \A j \in 1..i : out[j].msg # "Successfully created variable"

\* C6: in migrate variables -g -G -r every POST goes to a project of the
\* destination group that has the name of a fetched source project, and carries
\* one of the variables of that source project; a destination project no
\* source project is named like gets no request.
OnlyMatchedProjectsReceive ==
    InRecursiveMigrate =>
        \A i \in DOMAIN reqs :
            reqs[i].method = "POST" =>
                \E s \in Range(projects.elems), d \in Range(DestListing) :
                    /\ reqs[i].src = ToString(s.id)
                    /\ d.name = s.name
                    /\ reqs[i].base = DestinationURL
                    /\ reqs[i].path = <<"projects", ToString(d.id), "variables">>
                    /\ \E w \in Range(remote.variables[<<SourceURL, "projects", ToString(s.id)>>]) :
                          Fields(reqs[i].body) = Fields(w)

\* Source {api: P1_*, api-v2: P2_1} against destination {api (21), API (22)}:
\* the variables of api were sent to 21, nothing of api-v2 was sent, 22 got nothing.
MatchedWitness ==
    /\ InRecursiveMigrate /\ pc = "Run.end"
    /\ [i \in DOMAIN projects.elems |-> projects.elems[i].name] = <<NameApi, NameApiV2>>
    /\ [i \in DOMAIN DestListing |-> DestListing[i].name] = <<NameApi, NameAPI>>
    /\ Len(PostsFor("1")) = MaxVars /\ PostsFor("2") = <<>>
    /\ \A i \in DOMAIN Posts : Posts[i].path = <<"projects", "21", "variables">>

\* The requests that fetched variables from the source and were answered.
IsFetch(r) == r.method = "GET" /\ r.resp.ok /\ Len(r.path) = 3 /\ r.path[3] = "variables"

\* The POSTs that replay the records fetch g returned.
Replays(g) ==
    SelectSeq(reqs, LAMBDA r : r.method = "POST" /\ (InRecursiveMigrate => r.src = g.path[2]))

\* C7: migrate variables sends every record with the field set it was fetched
\* with, the same keys with the same values, in project, group and recursive
\* mode: the i-th POST made from a fetched list carries the fields of its i-th
\* record, and every POST is made from a fetched list.
RoundTripKeepsFields ==
    cmd = "migrate variables" =>
        /\ \A i \in DOMAIN reqs :
              reqs[i].method = "POST" =>
                  \E j \in 1..(i - 1) :
                      /\ IsFetch(reqs[j])
                      /\ InRecursiveMigrate => reqs[i].src = reqs[j].path[2]
        /\ \A j \in DOMAIN reqs :
              IsFetch(reqs[j]) =>
                  /\ Len(Replays(reqs[j])) <= Len(reqs[j].resp.items)
                  /\ \A i \in DOMAIN Replays(reqs[j]) :
                        Fields(Replays(reqs[j])[i].body) = Fields(reqs[j].resp.items[i])

\* A record fetched with a null member and an escaped value was replayed: the
\* bytes sent differ from the bytes fetched, the fields do not.
RoundTripWitness ==
    /\ cmd = "migrate variables" /\ projectID # "" /\ groupID = "" /\ pc = "Run.end"
    /\ Len(reqs) = 1 + MaxVars /\ IsFetch(reqs[1])
    /\ reqs[2].body # reqs[1].resp.items[1]
    /\ <<"description", <<"null", "null">> >> \in Fields(reqs[2].body)
    /\ <<"value", <<"string", "<s3cret&>">> >> \in Fields(reqs[2].body)

\* C8 as stated: when getAllVariablesForGroupProjects returns in recursive
\* mode, every project of every page of the source group is a key of the map
\* it built.
EveryPageEnumerated ==
    (InRecursiveMigrate /\ pc = "saveOutputToFile" /\ ~projects.nil) =>
        \A p \in Range(Concat(PagesHeld(SourceURL, groupID))) :
            ToString(p.id) \in DOMAIN sourceVars.val

\* The first request of migrate variables is the source-side fetch the plan is
\* built from.
SourceFetchFailed == cmd = "migrate variables" /\ reqs # <<>> /\ ~reqs[1].resp.ok

\* C9 as stated: when the source-side fetch of migrate variables fails, no
\* POST is made and the run does not report 'Variables migration completed
\* successfully'.
SourceFailureIsFatal ==
    SourceFetchFailed =>
        /\ Posts = <<>>
        /\ ~Said("Variables migration completed successfully")

\* A request of fetchAllProjects that failed.
ListingFailed(i) ==
    /\ reqs[i].method = "GET" /\ reqs[i].page >= 1 /\ ~reqs[i].resp.ok
    /\ reqs[i].path = <<"groups", destinationGroupID, "projects">>

\* C10: in migrate variables -r and set variables -r, a failed request of
\* fetchAllProjects, on whichever page, is the last request of the run: the
\* run ends with the error printed, no POST made and no success reported.
DestinationListingFailureIsFatal ==
    (InRecursiveMigrate \/ InRecursiveSet) =>
        \A i \in DOMAIN reqs :
            ListingFailed(i) =>
                /\ i = Len(reqs)
                /\ pc = "done"
                /\ Posts = <<>>
                /\ ~Said("Variables migration completed successfully")
                /\ Last(out).msg \in {"Error fetching destination projects",
                                      "Error fetching projects"}

\* The second page of the destination listing failed, with variables of a
\* matched project fetched and ready to be sent.
DestinationListingWitness ==
    /\ InRecursiveMigrate /\ pc = "done"
    /\ reqs # <<>> /\ ListingFailed(Len(reqs)) /\ Last(reqs).page = 2
    /\ \E k \in DOMAIN sourceVars.val :
          /\ ~Unmatched(sourceVars.val[k].project_name)
          /\ sourceVars.val[k].variables.elems # <<>>

\* A configuration the design calls invalid: the file cannot be read, a URL
\* or a token is missing or blank, or a URL is not an absolute http(s) URL.
Blank(s) == s \in {"", " ", "  "}

Misconfigured(f) ==
    \/ ~f.readable
    \/ Blank(f.SourceAccessToken) \/ Blank(f.DestinationAccessToken)
    \/ \E u \in {f.SourceBaseURL, f.DestinationBaseURL} :
          (u[1] = "" /\ Blank(u[2])) \/ u[1] \notin {"http", "https"}

ConfigErrors ==
    {"failed to read config file", "source_base_url is required",
     "source_access_token is required", "destination_base_url is required",
     "destination_access_token is required", "invalid source_base_url",
     "invalid destination_base_url"}

ConfigErrorReported ==
    \E i \in DOMAIN out :
        /\ out[i].msg \in {"Error loading config", "Error:", "Error: failed to load config"}
        /\ out[i].arg \in ConfigErrors

\* C11: with an invalid configuration no command sends a request to either
\* instance, and the run ends with the configuration error reported (migrate
\* variables checks its identifiers first and, when they are missing, ends on
\* that error before the configuration is loaded).
ConfigErrorSendsNothing ==
    Misconfigured(configFile) =>
        /\ reqs = <<>>
        /\ pc \in {"Run", "done"}
        /\ pc = "done" =>
              \/ ConfigErrorReported
              \/ /\ cmd = "migrate variables"
                 /\ Last(out).msg = "Error: Source and destination IDs must be provided"

\* A run with complete identifiers ended on a blank token.
ConfigErrorWitness ==
    /\ pc = "done" /\ ConfigErrorReported
    /\ Blank(configFile.DestinationAccessToken)
    /\ cmd = "mirror" /\ groupID = "10" /\ destinationGroupID = "20"


InGet == cmd \in {"get groups", "get projects", "get variables"}

\* C12 as stated: every request of a get subcommand goes to the destination
\* instance, with the destination token, when -d is set and to the source
\* instance, with the source token, when it is not.
GetReadsTheFlaggedInstance ==
    InGet =>
        \A i \in DOMAIN reqs :
            IF isDestination
            THEN /\ reqs[i].base = configFile.DestinationBaseURL
                 /\ reqs[i].token = configFile.DestinationAccessToken
            ELSE /\ reqs[i].base = configFile.SourceBaseURL
                 /\ reqs[i].token = configFile.SourceAccessToken


\* The identifiers of migrate variables form a matching pair.
MatchingPair ==
    \/ groupID # "" /\ destinationGroupID # ""
    \/ projectID # "" /\ destinationProjectID # ""

\* C13 as stated: migrate variables sends no request whose target id is
\* empty, and without a matching pair of identifiers it is stopped by the
\* check of the identifiers: it sends no creation request.
MigrateNeedsAMatchingPair ==
    cmd = "migrate variables" =>
        /\ \A i \in DOMAIN reqs : reqs[i].path[2] # ""
        /\ ~MatchingPair => Posts = <<>>


\* The flags of mirror hold both project ids or both group ids.
CompletePair ==
    \/ projectID # "" /\ destinationProjectID # ""
    \/ groupID # "" /\ destinationGroupID # ""

\* C14 as stated: without a complete pair of ids, Run of mirror returns the
\* 'must specify either project IDs (-p, -P) or group IDs (-g, -G)' error.
MirrorNeedsACompletePair ==
    (cmd = "mirror" /\ pc = "done" /\ ~Misconfigured(configFile) /\ ~CompletePair) =>
        Said("Error: must specify either project IDs (-p, -P) or group IDs (-g, -G)")


\* get groups, or get projects without -g: the commands that call
\* executeGitLabAPIRequest.
InTopLevelFetch == cmd = "get groups" \/ (cmd = "get projects" /\ groupID = "")

\* C15 as stated: what executeGitLabAPIRequest returns for a collection that
\* spans several pages is the records of all its pages.
TopLevelFetchIsComplete ==
    (InTopLevelFetch /\ pc = "saveOutput" /\ result.dyn # "nil") =>
        result.val = Concat(remote.resources[<<Last(reqs).base, Last(reqs).path[1]>>])


\* In the sequence rs of requests, none goes to the source instance after one
\* went to the destination instance, and no GET follows a POST.
PhasesDisjoint(rs) ==
    \A i, j \in DOMAIN rs :
        i < j => /\ ~(rs[i].base = DestinationURL /\ rs[j].base = SourceURL)
                 /\ ~(rs[i].method = "POST" /\ rs[j].method = "GET")

IsGroupListing(r) ==
    r.method = "GET" /\ Len(r.path) = 3 /\ r.path[1] = "groups" /\ r.path[3] = "projects"

GroupMirror == cmd = "mirror" /\ ~(projectID # "" /\ destinationProjectID # "")

\* C16 as stated: in every run of migrate variables and of mirror the source
\* phase and the destination phase are disjoint, and no GET follows a POST.
PhasesAreDisjoint ==
    cmd \in {"migrate variables", "mirror"} => PhasesDisjoint(reqs)

\* C16, amended: the phases are disjoint in migrate variables (all three
\* modes) and in mirror in project mode; in group-mirror mode the two
\* listings are disjoint phases, source first, and both are complete before
\* the first write.
PlanPhasesAreDisjoint ==
    /\ (cmd = "migrate variables" \/ (cmd = "mirror" /\ ~GroupMirror)) => PhasesDisjoint(reqs)
    /\ GroupMirror =>
          /\ PhasesDisjoint(SelectSeq(reqs, IsGroupListing))
          /\ \A i, j \in DOMAIN reqs :
                (i < j /\ IsGroupListing(reqs[j])) => reqs[i].method = "GET" /\ IsGroupListing(reqs[i])

\* A recursive migration that created variables in two destination projects,
\* and a group mirror that handled two matched pairs.
PlanPhasesWitness ==
    \/ /\ cmd = "migrate variables" /\ groupID # "" /\ recursive /\ pc = "done"
       /\ Cardinality({Posts[i].path[2] : i \in DOMAIN Posts}) = 2
    \/ /\ GroupMirror /\ pc = "done"
       /\ Cardinality({Posts[i].path[2] : i \in DOMAIN Posts}) = 2


\* migrate variables is executing its plan: the snapshot is saved and, in
\* recursive mode, the destination listing is obtained.
PlanStarted ==
    /\ cmd = "migrate variables"
    /\ pc \in {"range", "createVariablesForProject", "createVariablesForGroup"}

Completed == pc = "done" /\ Said("Variables migration completed successfully")

\* C17: once migrate variables executes its plan, the run reaches the
\* 'Variables migration completed successfully' report, however many
\* creations fail and however many projects have no counterpart.
MigrationAlwaysCompletes == PlanStarted ~> Completed

\* A recursive run reported as completed in which every creation failed and
\* a project had no counterpart.
MigrationCompletesWitness ==
    /\ Completed /\ groupID # "" /\ recursive
    /\ Posts # <<>>
    /\ \A i \in DOMAIN Posts : Posts[i].resp.status # StatusCreated
    /\ Said("Warning: Project not found in destination group")


\* The projects the two groups of a group mirror list: those on the pages
\* before the first empty one.
SourceListing == Listed(PagesHeld(SourceURL, groupID))
TargetListing == Listed(PagesHeld(DestinationURL, destinationGroupID))

\* Target project t is the counterpart of source project s: the same
\* namespace name and the same project name.
Counterpart(s, t) == t.namespace.name = s.namespace.name /\ t.name = s.name

Orphan(s) == \A j \in DOMAIN TargetListing : ~Counterpart(s, TargetListing[j])

IsMirrorPost(r) == r.method = "POST" /\ r.path[3] = "remote_mirrors"

TargetMissing(l) == l.msg = "Warning: Target project not found"

\* C18: in group-mirror mode every remote_mirrors request is for a source
\* project of the source group on a target project of the target group that
\* has its namespace name and its project name; for a source project without
\* such a target no request is made and the warning is printed.
MirrorsOnlyCounterparts ==
    (GroupMirror /\ groupID # "" /\ destinationGroupID # "") =>
        /\ \A i \in DOMAIN reqs :
              IsMirrorPost(reqs[i]) =>
                  \E a \in DOMAIN SourceListing, b \in DOMAIN TargetListing :
                      /\ ToString(SourceListing[a].id) = reqs[i].src
                      /\ ToString(TargetListing[b].id) = reqs[i].path[2]
                      /\ Counterpart(SourceListing[a], TargetListing[b])
        /\ \A a \in DOMAIN SourceListing :
              Orphan(SourceListing[a]) =>
                  \A i \in DOMAIN reqs :
                      /\ reqs[i].src # ToString(SourceListing[a].id)
                      /\ reqs[i].path # <<"projects", ToString(SourceListing[a].id)>>
        /\ (pc = "done" /\ si > Len(SourceListing)) =>
              Len(SelectSeq(out, TargetMissing))
                  = Cardinality({a \in DOMAIN SourceListing : Orphan(SourceListing[a])})

\* A group mirror that linked one pair, skipped a source project whose name
\* the target group holds in another namespace only, and left a target
\* project without a mirror.
CounterpartWitness ==
    /\ GroupMirror /\ pc = "done"
    /\ \E i \in DOMAIN reqs : IsMirrorPost(reqs[i]) /\ reqs[i].resp.status = StatusCreated
    /\ \E a \in DOMAIN SourceListing :
          /\ Orphan(SourceListing[a])
          /\ \E b \in DOMAIN TargetListing : TargetListing[b].name = SourceListing[a].name
    /\ \E l \in Range(out) : TargetMissing(l)


\* The requests that fetch the details of source project s.
DetailRequests(s) ==
    SelectSeq(reqs, LAMBDA r : r.method = "GET" /\ r.path = <<"projects", ToString(s.id)>>)

PairLines ==
    SelectSeq(out, LAMBDA l : l.msg \in {"Error mirroring project",
                                         "Successfully created mirror for project"})

RunError(l) ==
    l.msg \in {"Error:", "Error: failed to fetch source projects",
               "Error: failed to fetch target projects", "Error: failed to load config"}

\* C19: a group mirror that fetched both listings ends with every matched
\* pair attempted once (the details of its source project requested) and
\* reported, as created or as failed, and with no error returned by Run.
PairFailuresAreSkipped ==
    (GroupMirror /\ pc = "done" /\ si >= 1) =>
        /\ \A a \in DOMAIN SourceListing :
              Len(DetailRequests(SourceListing[a]))
                  = IF Orphan(SourceListing[a]) THEN 0 ELSE 1
        /\ Len(PairLines)
              = Cardinality({a \in DOMAIN SourceListing : ~Orphan(SourceListing[a])})
        /\ \A l \in Range(out) : ~RunError(l)

\* The first pair failed (here by the save of the configuration) and the
\* second pair was mirrored.
PairFailureWitness ==
    /\ GroupMirror /\ pc = "done" /\ Len(PairLines) = 2
    /\ PairLines[1].msg = "Error mirroring project"
    /\ PairLines[1].arg = "failed to save config"
    /\ PairLines[2].msg = "Successfully created mirror for project"


IsCreation(r) == r.method = "POST" /\ r.path[Len(r.path)] = "variables"

AnsweredWith2xx(r) == r.resp.ok /\ r.resp.status \in 200..299

\* C20: a creation is reported "Successfully created" only when the
\* destination answered it with a 2xx status: there are as many such reports
\* as creation requests answered with a 2xx status.
OnlyTwoHundredsSucceed ==
    Len(SelectSeq(out, LAMBDA l : l.msg = "Successfully created variable"))
        = Len(SelectSeq(reqs, LAMBDA r : IsCreation(r) /\ AnsweredWith2xx(r)))


\* The token the configuration file holds for the instance at base.
TokenFor(base) ==
    IF base = configFile.SourceBaseURL THEN configFile.SourceAccessToken
    ELSE configFile.DestinationAccessToken

\* C21: every request carries the token of the instance it is addressed to:
\* the source token to the source base URL, the destination token to the
\* destination base URL, whatever -d and -s say.
TokenFollowsInstance ==
    \A i \in DOMAIN reqs :
        /\ reqs[i].base \in {configFile.SourceBaseURL, configFile.DestinationBaseURL}
        /\ reqs[i].token = TokenFor(reqs[i].base)

\* get ... -d has read the destination instance, with the destination token.
TokenWitness ==
    /\ isDestination
    /\ \E i \in DOMAIN reqs : /\ reqs[i].base = configFile.DestinationBaseURL
                              /\ reqs[i].token = configFile.DestinationAccessToken
                              /\ reqs[i].token # configFile.SourceAccessToken


\* Request i asked for a page of a paginated listing and failed.
PageFailed(i) ==
    /\ reqs[i].method = "GET" /\ reqs[i].page >= 1
    /\ Len(reqs[i].path) = 3 /\ reqs[i].path[1] = "groups" /\ reqs[i].path[3] = "projects"
    /\ ~reqs[i].resp.ok

\* What the caller of the listing that sent request i holds of it.
ReturnedListing(i) ==
    IF cmd # "mirror" THEN destProjects
    ELSE IF reqs[i].base = config.SourceBaseURL THEN sourceProjects
    ELSE targetProjects

\* C22: a page of a paginated listing that fails ends the listing at once:
\* no request follows it, the caller gets an error and no record, those of
\* the pages fetched before it included.
PageFailureEndsTheListing ==
    \A i \in DOMAIN reqs :
        PageFailed(i) =>
            /\ i = Len(reqs)
            /\ pc = "done"
            /\ ReturnedListing(i) = <<>>
            /\ cmd = "mirror" => targetProjectMap = <<>>
            /\ Last(out).msg \in {"Error fetching destination projects",
                                  "Error fetching projects",
                                  "Error: failed to fetch source projects",
                                  "Error: failed to fetch target projects"}

\* The second page of the target listing of a group mirror failed: the first
\* page held a project, which the caller does not get.
PageFailureWitness ==
    /\ cmd = "mirror" /\ pc = "done" /\ reqs # <<>>
    /\ PageFailed(Len(reqs)) /\ Last(reqs).page = 2
    /\ Last(reqs).base = config.DestinationBaseURL
    /\ \E i \in DOMAIN reqs : /\ reqs[i].base = config.DestinationBaseURL
                              /\ reqs[i].page = 1 /\ reqs[i].resp.items # <<>>
    /\ targetProjects = <<>>


\* The URL of the repository path on the destination with the mirror
\* credentials of c in it.
CredentialedURL(c, path) ==
    <<c.DestinationBaseURL[1], c.AuthUser, c.AuthPassword, c.DestinationBaseURL[2], path, ".git">>

\* Request j is the answered GET of the source project that request i mirrors.
DetailsFetched(j, i) ==
    /\ reqs[j].method = "GET" /\ reqs[j].path = <<"projects", reqs[i].src>>
    /\ reqs[j].base = config.SourceBaseURL
    /\ reqs[j].resp.ok /\ reqs[j].resp.status = StatusOK

\* C23: a remote_mirrors POST directly follows the answered GET of its
\* source project and none follows a failed one; a mirror is reported as
\* created exactly when its POST was answered 201; and the URL sent is the
\* destination base URL with the mirror credentials and the fetched path
\* followed by ".git".
MirrorProjectContract ==
    /\ \A i \in DOMAIN reqs :
          IsMirrorPost(reqs[i]) => i > 1 /\ DetailsFetched(i - 1, i)
    /\ Len(SelectSeq(out, LAMBDA l : l.msg = "Successfully created mirror for project"))
          = Len(SelectSeq(reqs, LAMBDA r : /\ IsMirrorPost(r) /\ r.resp.ok
                                           /\ r.resp.status = StatusCreated))
    /\ (reqs # <<>> /\ IsMirrorPost(Last(reqs))) =>
          Last(reqs).body.url
              = CredentialedURL(config, reqs[Len(reqs) - 1].resp.items[1].path_with_namespace)


\* A step of mirrorProject in which the details of the source project were
\* fetched; a step that printed the two prompts.
DetailsStep ==
    /\ pc = "mirrorProject" /\ Len(reqs') = Len(reqs) + 1 /\ Last(reqs').resp.ok

PromptStep ==
    /\ Len(out') >= Len(out) + 2
    /\ out'[Len(out) + 1].msg = "Enter mirror username: "
    /\ out'[Len(out) + 2].msg = "Enter mirror password: "

Stored(c) == c.AuthUser # "" /\ c.AuthPassword # ""

CredentialsStep ==
    /\ PromptStep <=> (DetailsStep /\ (config.AuthUser = "" \/ config.AuthPassword = ""))
    /\ PromptStep =>
          /\ \E typed \in Typed : /\ config'.AuthUser = typed[1]
                                  /\ config'.AuthPassword = typed[2]
          /\ pc' = "mirrorProject(create)" => configOnDisk' = config'
          /\ pc' # "mirrorProject(create)" =>
                /\ configOnDisk' = configOnDisk
                /\ Last(out').msg \in {"Error mirroring project", "Error:"}
                /\ Last(out').arg = "failed to save config"
    /\ (DetailsStep /\ ~PromptStep) => pc' = "mirrorProject(create)"
    /\ Stored(configOnDisk) => ~PromptStep

\* C24: once the details of the source project are fetched, mirrorProject
\* prompts exactly when the configured user or password is empty; what was
\* typed is in the configuration file before the call goes on to its POST,
\* and a failed write ends the call with no POST; with both credentials
\* stored, no later call of the run prompts.
PromptsAndStoresCredentials == [][CredentialsStep]_vars

\* A group mirror of two matched pairs that started without credentials: the
\* first pair prompted and stored them, the second did not prompt, and both
\* POSTs carry them.
CredentialsWitness ==
    /\ GroupMirror /\ pc = "done" /\ ~Stored(configFile)
    /\ Stored(configOnDisk) /\ configOnDisk = config
    /\ Len(SelectSeq(out, LAMBDA l : l.msg = "Enter mirror username: ")) = 1
    /\ Len(SelectSeq(reqs, LAMBDA r : /\ IsMirrorPost(r)
                                      /\ r.body.url[2] = config.AuthUser
                                      /\ r.body.url[3] = config.AuthPassword)) = 2


ListingLoops == {"fetchAllProjects", "fetchGroupProjects(source)", "fetchGroupProjects(target)"}

\* The listing the loop l asks for.
ListingKey(l) ==
    IF l = "fetchAllProjects" THEN <<ListBase, destinationGroupID>>
    ELSE IF l = "fetchGroupProjects(source)" THEN <<config.SourceBaseURL, groupID>>
    ELSE <<config.DestinationBaseURL, destinationGroupID>>

RequestsOf(l) == Listings(ListingKey(l)[1], ListingKey(l)[2])

\* The loop l has run and is over.
LoopLeft(l) ==
    /\ pc # l /\ RequestsOf(l) # <<>>
    /\ l = "fetchAllProjects" <=> cmd # "mirror"

\* C25: executeGitLabAPIRequest ends, after 3 attempts at most.  The loop of
\* a paginated listing ends when the listing is finite, within one request
\* more than it has pages; and it ends only on a failed request or on an
\* empty page, so that on a listing without an empty page it goes on as long
\* as its requests are answered.
LoopsTerminate ==
    /\ (pc = "executeGitLabAPIRequest") ~> (pc # "executeGitLabAPIRequest")
    /\ [](InRetriedFetch => Len(Attempts) <= maxRetries)
    /\ \A l \in ListingLoops :
          (pc = l /\ ListingKey(l) \notin remote.endless) ~> (pc # l)
    /\ [](\A l \in ListingLoops :
             /\ ListingKey(l) \notin remote.endless =>
                   Len(RequestsOf(l)) <= Len(PagesHeld(ListingKey(l)[1], ListingKey(l)[2])) + 1
             /\ LoopLeft(l) =>
                   \/ ~Last(RequestsOf(l)).resp.ok
                   \/ Last(RequestsOf(l)).resp.items = <<>>)

\* A listing without an empty page: every request up to page MaxPageNo was
\* answered with records, and the loop is about to ask for the next page.
EndlessListingWitness ==
    /\ pc = "fetchAllProjects" /\ ListingKey(pc) \in remote.endless
    /\ page = MaxPageNo + 1 /\ Len(RequestsOf(pc)) = MaxPageNo
    /\ \A i \in DOMAIN RequestsOf(pc) :
          RequestsOf(pc)[i].resp.ok /\ RequestsOf(pc)[i].resp.items # <<>>
    /\ Len(allProjects) = MaxPageNo


\* A request of the source phase of migrate variables: the variables of a
\* group or of a project, the projects of the source group.
IsSourceRead(r) == r.method = "GET" /\ r.page = 0

\* C26: in a migrate variables run both instance flags are false at every
\* step; the reads of the source phase go to the source instance, the
\* destination listing and every creation to the destination instance.
MigrateKeepsInstancesApart ==
    cmd = "migrate variables" =>
        /\ ~isDestination /\ ~isSource
        /\ \A i \in DOMAIN reqs :
              /\ IsSourceRead(reqs[i]) => reqs[i].base = configFile.SourceBaseURL
              /\ ~IsSourceRead(reqs[i]) => reqs[i].base = configFile.DestinationBaseURL
              /\ IsCreation(reqs[i]) => reqs[i].base # configFile.SourceBaseURL
              /\ IsSourceRead(reqs[i]) \/ IsCreation(reqs[i])
                 \/ reqs[i].path = <<"groups", destinationGroupID, "projects">>

\* A recursive migration that read the projects and the variables of the
\* source group, listed the destination group and created a variable there.
InstancesApartWitness ==
    /\ InRecursiveMigrate /\ pc = "done"
    /\ \E i, j, k, l \in DOMAIN reqs :
          /\ i < j /\ j < k /\ k < l
          /\ reqs[i].path = <<"groups", groupID, "projects">> /\ reqs[i].page = 0
          /\ reqs[j].path[3] = "variables" /\ reqs[j].method = "GET"
          /\ reqs[k].page >= 1 /\ reqs[k].base = configFile.DestinationBaseURL
          /\ IsCreation(reqs[l]) /\ reqs[l].base = configFile.DestinationBaseURL


\* The instance -s chooses for set variables.
ChosenInstance == IF isSource THEN configFile.SourceBaseURL ELSE configFile.DestinationBaseURL

\* Request j listed, on the instance of request i, the project that request
\* i writes to.
ResolvedBy(j, i) ==
    /\ reqs[j].method = "GET" /\ reqs[j].page >= 1
    /\ reqs[j].path = <<"groups", destinationGroupID, "projects">>
    /\ reqs[j].base = reqs[i].base
    /\ \E p \in Range(reqs[j].resp.items) : ToString(p.id) = reqs[i].path[2]

\* C27: in set variables -r the listing and the creations go to one
\* instance, the source with -s and the destination without; every creation
\* writes to a project that the listing of that instance returned.
SetResolvesWhereItWrites ==
    InRecursiveSet =>
        \A i \in DOMAIN reqs :
            /\ reqs[i].base = ChosenInstance
            /\ IsCreation(reqs[i]) => \E j \in 1..(i - 1) : ResolvedBy(j, i)

\* set variables -G 20 -r -s listed group 20 of the source instance and
\* created a variable on a project of that listing.
SetOnSourceWitness ==
    /\ InRecursiveSet /\ isSource
    /\ \E i \in DOMAIN reqs : /\ IsCreation(reqs[i])
                              /\ reqs[i].base = configFile.SourceBaseURL
                              /\ \E j \in 1..(i - 1) : ResolvedBy(j, i)


\* The positions of the target listing that hold a counterpart of s.
CounterpartsOf(s) == {a \in DOMAIN TargetListing : Counterpart(s, TargetListing[a])}

Max(S) == CHOOSE a \in S : \A b \in S : b <= a

\* The position in the listing ps of the project that request r writes to.
PositionOf(ps, r) == CHOOSE a \in DOMAIN ps : ToString(ps[a].id) = r.path[2]

\* C28: of several target projects with one namespace/name key a group
\* mirror takes the one listed last, and mirrors the source project onto it
\* only; of several destination projects with one name the recursive
\* variable runs take the one listed first.
LastInMirrorFirstInResolver ==
    /\ GroupMirror =>
          \A i \in DOMAIN reqs :
              IsMirrorPost(reqs[i]) =>
                  \E a \in DOMAIN SourceListing :
                      LET s == SourceListing[a]
                      IN  /\ ToString(s.id) = reqs[i].src
                          /\ CounterpartsOf(s) # {}
                          /\ reqs[i].path[2] = ToString(TargetListing[Max(CounterpartsOf(s))].id)
                          /\ \A j \in DOMAIN reqs :
                                (IsMirrorPost(reqs[j]) /\ reqs[j].src = reqs[i].src) => j = i
    /\ (InRecursiveMigrate \/ InRecursiveSet) =>
          \A i \in DOMAIN reqs :
              IsCreation(reqs[i]) =>
                  /\ \E a \in DOMAIN destProjects : ToString(destProjects[a].id) = reqs[i].path[2]
                  /\ \A b \in 1..(PositionOf(destProjects, reqs[i]) - 1) :
                        destProjects[b].name # destProjects[PositionOf(destProjects, reqs[i])].name

\* Two target projects have the key of a source project: the mirror was
\* created on the second.
LastInMirrorWitness ==
    /\ GroupMirror /\ Len(TargetListing) = 2
    /\ \E a \in DOMAIN SourceListing :
          /\ CounterpartsOf(SourceListing[a]) = {1, 2}
          /\ \E i \in DOMAIN reqs :
                /\ IsMirrorPost(reqs[i]) /\ reqs[i].src = ToString(SourceListing[a].id)
                /\ reqs[i].path[2] = ToString(TargetListing[2].id)


\* C29: the resolver returns an id or 0 for every name on every destination
\* listing, a listing with a malformed record included, and a run never
\* ends in it.
ResolverIsTotal ==
    /\ pc # "panic"
    /\ \A n \in Names : ~findProjectIDByExactName(destProjects, n).panic


====
